---- MODULE Spec2Model ----
(***************************************************************************)
(* EduSchedule: the allocation engine of src/src/App.tsx.                  *)
(*                                                                         *)
(* generateSchedule is modelled as a state machine over one run: the      *)
(* inputs (assignment rows, obligation rows, settings) are chosen in Init, *)
(* Normalize filters and sorts the tasks, DayStep is one iteration of the  *)
(* day loop up to the first slot, SlotStep is one iteration of the slot    *)
(* loop, Finish builds the result.  subtractInterval is also exercised on  *)
(* its own under SpecInterval, the task normalizer with notes under        *)
(* SpecNotes, and App's handlers around the run (edit, generate, approve,  *)
(* download) under SpecUI.  buildIcs is exercised on its own under         *)
(* SpecIcs, and SpecLive is the run under weak fairness of its steps.      *)
(*                                                                         *)
(* Time is counted in minutes.  A calendar day is its offset from          *)
(* settings.startDate (day 0); an instant is day * 1440 + minute of day.   *)
(* Fractions (the day budget, the scores) are exact rationals num/den;     *)
(* the source computes them in IEEE doubles.                               *)
(***************************************************************************)
EXTENDS Integers, Sequences, FiniteSets, TLC

\* ------------------------------------------------------------------ bounds

\* The latest deadline of the modelled inputs, in days after the start date.
MaxDeadlineOffset == 2

\* The largest minute used by the inputs of SpecInterval.
MaxPoint == 3

\* ---------------------------------------------------------------- constants

MinutesPerDay == 1440

\* new Date(a.deadline + "T23:59:00"): the minute of the day of a deadline.
DeadlineMinuteOfDay == 1439

\* The slot loop gives up a window with fewer minutes than this left, and
\* never allocates fewer minutes than this.
MinSlotMinutes == 10

Null == "null"

\* parseTimeToMinutes's null.
NullMinutes == -1

\* ------------------------------------------------------------ pure helpers

Min(a, b) == IF a <= b THEN a ELSE b

Max(a, b) == IF a >= b THEN a ELSE b

\* Math.round(n * num / den) for n >= 0: round half up.
RoundMul(n, num, den) == (2 * n * num + den) \div (2 * den)

\* A time string "hh:mm" is the sequence of the numbers between its colons.
parseTimeToMinutes(t) ==
  IF Len(t) # 2 THEN NullMinutes
  ELSE IF t[1] < 0 \/ t[1] > 23 \/ t[2] < 0 \/ t[2] > 59 THEN NullMinutes
  ELSE t[1] * 60 + t[2]

\* Array.prototype.filter.  (The sequence is bound to v once, as a value.)
SeqFilter(s, Keep(_)) ==
  LET Kept(v) ==
        LET F[i \in 0..Len(v)] ==
              IF i = 0 THEN <<>>
              ELSE IF Keep(v[i]) THEN Append(F[i - 1], v[i]) ELSE F[i - 1]
        IN F[Len(v)]
  IN CHOOSE r \in {Kept(v) : v \in {s}} : TRUE

SeqSum(s) ==
  LET F[i \in 0..Len(s)] == IF i = 0 THEN 0 ELSE F[i - 1] + s[i]
  IN F[Len(s)]

\* Array.prototype.sort with comparator Before: a stable insertion sort.
\* Before(a, b) is "the comparator is negative on (a, b)".
\* (The sequence, the part sorted so far and the places after x are each bound
\* once, as values.)
StableSort(s, Before(_, _)) ==
  LET Place(sorted, x, later) ==
        LET pos == IF later = {} THEN Len(sorted) + 1
                   ELSE CHOOSE i \in later : \A j \in later : i <= j
        IN SubSeq(sorted, 1, pos - 1) \o <<x>> \o SubSeq(sorted, pos, Len(sorted))
      Insert(sorted, x) ==
        CHOOSE r \in {Place(sorted, x, later) :
                        later \in {{i \in 1..Len(sorted) : Before(x, sorted[i])}}} : TRUE
      Sorted(v) ==
        LET F[i \in 0..Len(v)] ==
              IF i = 0 THEN <<>>
              ELSE CHOOSE r \in {Insert(w, v[i]) : w \in {F[i - 1]}} : TRUE
        IN F[Len(v)]
  IN CHOOSE r \in {Sorted(v) : v \in {s}} : TRUE

\* -------------------------------------------------------------------- text
\* A string of the source is the sequence of its characters, each a TLA+ string:
\* the character itself, the name of a character a TLA+ string cannot hold
\* ("bullet", "mem"), or a run of letters that no pattern looks into ("read").

UpperCase ==
  <<"A", "B", "C", "D", "E", "F", "G", "H", "I", "J", "K", "L", "M", "N", "O", "P",
    "Q", "R", "S", "T", "U", "V", "W", "X", "Y", "Z">>

LowerCase ==
  <<"a", "b", "c", "d", "e", "f", "g", "h", "i", "j", "k", "l", "m", "n", "o", "p",
    "q", "r", "s", "t", "u", "v", "w", "x", "y", "z">>

toLowerCase(str) ==
  [i \in 1..Len(str) |->
     IF \E k \in 1..26 : UpperCase[k] = str[i]
     THEN LowerCase[CHOOSE k \in 1..26 : UpperCase[k] = str[i]]
     ELSE str[i]]

\* String.prototype.includes.
includes(str, part) ==
  \E i \in 0..(Len(str) - Len(part)) : SubSeq(str, i + 1, i + Len(part)) = part

\* String.prototype.trim; the white space of the inputs is the space.
trim(str) ==
  LET inked == {i \in 1..Len(str) : str[i] # " "}
  IN IF inked = {} THEN <<>>
     ELSE SubSeq(str, CHOOSE i \in inked : \A j \in inked : i <= j,
                 CHOOSE i \in inked : \A j \in inked : j <= i)

NonEmptyText(str) == Len(str) > 0

\* l.replace(/^[-*bullet]\s*/, "").
stripBullet(line) ==
  IF Len(line) > 0 /\ line[1] \in {"-", "*", "bullet"}
  THEN LET rest == Tail(line)
           inked == {i \in 1..Len(rest) : rest[i] # " "}
       IN IF inked = {} THEN <<>>
          ELSE SubSeq(rest, CHOOSE i \in inked : \A j \in inked : i <= j, Len(rest))
  ELSE line

Digits == {"0", "1", "2", "3", "4", "5", "6", "7", "8", "9"}

AllDigits(str) == Len(str) > 0 /\ \A i \in 1..Len(str) : str[i] \in Digits

\* \s*(\d+(?:\.\d+)?)\s*$ on the rest of a line after the separator.
IsHoursSuffix(str) ==
  LET t == trim(str)
  IN \/ AllDigits(t)
     \/ \E k \in 2..(Len(t) - 1) :
          /\ t[k] = "."
          /\ AllDigits(SubSeq(t, 1, k - 1))
          /\ AllDigits(SubSeq(t, k + 1, Len(t)))

\* The places where /^(.*?)[|,]\s*(\d+(?:\.\d+)?)\s*$/ can put its separator.
hintSeparators(line) ==
  {sep \in 1..Len(line) :
     line[sep] \in {"|", ","} /\ IsHoursSuffix(SubSeq(line, sep + 1, Len(line)))}

\* The labels one cleaned line pushes: m[1].trim() if the line matches and the
\* label is not empty, nothing if it is empty, the line if there is no match.
lineLabels(line) ==
  LET seps == hintSeparators(line)
  IN IF seps = {} THEN <<line>>
     ELSE LET sep == CHOOSE k \in seps : \A j \in seps : k <= j
              label == trim(SubSeq(line, 1, sep - 1))
          IN IF Len(label) > 0 THEN <<label>> ELSE <<>>

\* ------------------------------------------------------ interval calculus

\* subtractOne with the right piece not clipped at the end of the block.
subtractOneNoRightClip(w, block) ==
  IF block[2] <= w[1] \/ block[1] >= w[2] THEN <<w>>
  ELSE (IF block[1] > w[1] THEN <<(<<w[1], Min(block[1], w[2])>>)>> ELSE <<>>)
       \o (IF block[2] < w[2] THEN <<(<<w[1], w[2]>>)>> ELSE <<>>)

\* The pieces one window leaves: the body of the loop over the windows.
subtractOne(w, block) ==
  IF block[2] <= w[1] \/ block[1] >= w[2] THEN <<w>>
  ELSE (IF block[1] > w[1] THEN <<(<<w[1], Min(block[1], w[2])>>)>> ELSE <<>>)
       \o (IF block[2] < w[2] THEN <<(<<Max(block[2], w[1]), w[2]>>)>> ELSE <<>>)

NonEmptyWindow(w) == w[2] > w[1]

\* subtractInterval without its return on a blocked interval with end <= start.
subtractIntervalNoEarlyReturn(windows, block) ==
  LET F[i \in 0..Len(windows)] ==
        IF i = 0 THEN <<>> ELSE F[i - 1] \o subtractOne(windows[i], block)
  IN SeqFilter(F[Len(windows)], NonEmptyWindow)

subtractInterval(windows, block) ==
  IF block[2] <= block[1] THEN windows
  ELSE LET F[i \in 0..Len(windows)] ==
             IF i = 0 THEN <<>> ELSE F[i - 1] \o subtractOne(windows[i], block)
       IN SeqFilter(F[Len(windows)], NonEmptyWindow)

\* ------------------------------------------------------------------ state

VARIABLES
  assignments,          \* the AssignmentRow[] passed in
  weeklyObligations,    \* the WeeklyObligationRow[] passed in
  specificObligations,  \* the SpecificObligationRow[] passed in
  dailyObligations,     \* the DailyObligationRow[] passed in
  settings,             \* the Settings passed in
  pc,                   \* where the run is: start, day, slot, finish, done
  tasks,                \* InternalTask[], sorted; remainingMinutes and nextSubIndex change
  offset,               \* the day loop's counter
  workingDayIndex,      \* eligible days whose budget has been computed
  events,               \* ScheduledEvent[] in the order pushed (sorted by Finish)
  unscheduled,          \* the result's unscheduled list
  perDayStudyMinutes,   \* day -> minutes of task blocks
  perTaskPerDayMinutes, \* <<task id, day>> -> minutes of task blocks
  dailyBudgetMinutes,   \* the budget of the day being processed, [num, den]
  windows,              \* the free windows of the day being processed
  winIdx,               \* the window the slot loop is in
  cursor,               \* the slot loop's cursor, minute of day
  lastTaskIdForDay,     \* the task of the previous block of the day, or Null
  budgetLog,            \* history: day -> the budget computed for it
  choiceLog,            \* history: per task event, what the allocator chose among
  ivWindows,            \* SpecInterval: the free windows so far
  ivBlocks,             \* SpecInterval: the blocked intervals to fold over
  ivStart,              \* SpecInterval: the free windows before the fold
  ivDone,               \* SpecInterval: how many blocked intervals are folded in
  result,               \* App: <<>> for null, or <<the ScheduleResult>>
  icsContent,           \* App: <<>> for null, or <<the calendar document>>
  error,                \* App: "" for null, or the message
  scheduleApproved,     \* App: the approved-for-export flag
  hasDownloadedOnce,    \* App: a file was downloaded since the last generate
  uiPc,                 \* idle, or generating while handleGenerate runs
  lastAction,           \* history: the last handler run
  approvalsSinceGenerate, \* history: approvals since handleGenerate last ran
  downloads,            \* history: the documents downloaded (DTSTAMP apart), with the inputs then
  serialized            \* history: the event lists buildIcs was given, with its documents

inputVars ==
  <<assignments, weeklyObligations, specificObligations, dailyObligations, settings>>

runVars ==
  <<pc, tasks, offset, workingDayIndex, events, unscheduled, perDayStudyMinutes,
    perTaskPerDayMinutes, dailyBudgetMinutes, windows, winIdx, cursor,
    lastTaskIdForDay, budgetLog, choiceLog>>

ivVars == <<ivWindows, ivBlocks, ivStart, ivDone>>

uiVars ==
  <<result, icsContent, error, scheduleApproved, hasDownloadedOnce, uiPc, lastAction,
    approvalsSinceGenerate, downloads>>

icsVars == <<serialized>>

vars == <<inputVars, runVars, ivVars, icsVars, uiVars>>

\* ------------------------------------------------- settings, as the run reads them
\* settings.dailyMaxHours, settings.maxTaskHoursPerDay, settings.bufferHours and
\* a.estimatedHours are held multiplied by 60: the inputs are whole minutes, on
\* which Math.round(x * 60) is exact.

dailyMaxMinutes == settings.dailyMaxHours

maxTaskMinutesPerDay == settings.maxTaskHoursPerDay

\* blockMinutes as configured, without the clamp.
blockMinutesUnclamped == settings.blockMinutes

blockMinutes == Max(15, Min(240, settings.blockMinutes))

breakMinutes == Max(0, Min(60, settings.breakMinutes))

\* bufferMinutes with the hours taken as minutes.
bufferMinutesFromHours == Max(0, settings.bufferHours \div 60)

bufferMinutes == Max(0, settings.bufferHours)

\* getLoadRatio, in tenths.
getLoadRatio(mode) ==
  CASE mode = "relaxed" -> 6
    [] mode = "marathon" -> 10
    [] OTHER -> 8

ratio == getLoadRatio(settings.loadMode)

effectiveDailyMinutes == Max(30, RoundMul(dailyMaxMinutes, ratio, 10))

effectiveTaskMinutesPerDay == Max(15, RoundMul(maxTaskMinutesPerDay, ratio, 10))

workStartMinutes ==
  LET p == parseTimeToMinutes(settings.workdayStart) IN IF p = NullMinutes THEN 8 * 60 ELSE p

workEndMinutes ==
  LET p == parseTimeToMinutes(settings.workdayEnd) IN IF p = NullMinutes THEN 20 * 60 ELSE p

\* currentDate.getDay() of the day at `off`; settings.startWeekday is the weekday
\* of settings.startDate.
WeekdayOf(off) == (settings.startWeekday + off) % 7

\* IsWorkingDay without the test of the weekday.
IsWorkingDayAlways(off) == TRUE

IsWorkingDay(off) == WeekdayOf(off) \in settings.workingWeekdays

\* ------------------------------------------------------- task normalizer

\* The exam keywords; the two Hebrew ones by the names of their letters.
ExamKeywords ==
  {<<"mem", "bet", "het", "final nun">>, <<"bet", "vav", "het", "final nun">>,
   <<"e", "x", "a", "m">>, <<"q", "u", "i", "z">>,
   <<"m", "i", "d", "t", "e", "r", "m">>, <<"f", "i", "n", "a", "l">>}

isExam(title) == \E word \in ExamKeywords : includes(toLowerCase(title), word)

\* proposeSubtasks; each Hebrew label is one symbol, written in English.
proposeSubtasks(estimatedHours, title) ==
  IF isExam(title)
  THEN IF estimatedHours <= 2 * 60
       THEN <<(<<"review the material">>), (<<"solve sample questions">>),
              (<<"quick review before the exam">>)>>
       ELSE <<(<<"map the topics">>), (<<"solve exercises">>), (<<"practice exams">>),
              (<<"focused review before the exam">>)>>
  ELSE IF 2 * estimatedHours <= 3 * 60
  THEN <<(<<"understand the requirements">>), (<<"do and close">>)>>
  ELSE IF estimatedHours <= 3 * 60
  THEN <<(<<"read and plan">>), (<<"main work">>), (<<"check and improve">>)>>
  ELSE <<(<<"plan and split">>), (<<"first work">>), (<<"deepen and improve">>),
         (<<"edit and submit">>)>>

\* The pushes of cleaned.forEach, in order.
cleanedLabels(cleaned) ==
  LET F[i \in 0..Len(cleaned)] ==
        IF i = 0 THEN <<>> ELSE F[i - 1] \o lineLabels(cleaned[i])
  IN F[Len(cleaned)]

\* parseSubtaskPhases: the labels of the phases it returns (their planned minutes
\* are left out).  notes is the sequence of its lines.
parseSubtaskPhases(notes, estimatedHours, title) ==
  LET rawLines == SeqFilter([i \in 1..Len(notes) |-> trim(notes[i])], NonEmptyText)
      cleaned == SeqFilter([i \in 1..Len(rawLines) |-> trim(stripBullet(rawLines[i]))],
                           NonEmptyText)
  IN IF Len(rawLines) = 0 THEN proposeSubtasks(estimatedHours, title)
     ELSE cleanedLabels(cleaned)

\* parseSubtaskLabels without its fallback to the default sub-phases.
parseSubtaskLabelsNoFallback(notes, estimatedHours, title) ==
  LET phases == parseSubtaskPhases(notes, estimatedHours, title)
  IN SeqFilter([i \in 1..Len(phases) |-> trim(phases[i])], NonEmptyText)

parseSubtaskLabels(notes, estimatedHours, title) ==
  LET phases == parseSubtaskPhases(notes, estimatedHours, title)
      labels == SeqFilter([i \in 1..Len(phases) |-> trim(phases[i])], NonEmptyText)
  IN IF Len(labels) = 0 THEN proposeSubtasks(estimatedHours, title) ELSE labels

\* The first filter: a title, a positive estimate, a deadline text.
RowAccepted(a) == Len(trim(a.title)) > 0 /\ a.estimatedHours > 0 /\ a.deadline # <<>>

\* new Date(a.deadline + "T23:59:00") is an Invalid Date: a.deadline is <<d>> for
\* the text of the date of day d, <<>> for no text, and any longer sequence for
\* a text that is not a date (a month 13).
deadlineIsNaN(a) == Len(a.deadline) # 1

\* The map.
ToInternalTask(a) ==
  [id |-> a.id, priority |-> a.priority,
   deadlineDay |-> IF deadlineIsNaN(a) THEN 0 ELSE a.deadline[1],
   deadlineIsNaN |-> deadlineIsNaN(a), title |-> a.title,
   estimatedMinutes |-> a.estimatedHours, remainingMinutes |-> a.estimatedHours,
   subtasks |-> parseSubtaskLabels(a.notes, a.estimatedHours, a.title),
   nextSubIndex |-> 0]

\* The comparator of tasks.sort: deadline, then priority (higher first), then size.
TaskBefore(a, b) ==
  IF a.deadlineDay # b.deadlineDay THEN a.deadlineDay < b.deadlineDay
  ELSE IF b.priority # a.priority THEN b.priority < a.priority
  ELSE b.remainingMinutes < a.remainingMinutes

\* The second filter: a deadline that is a date, minutes to place.
TaskKept(t) == ~t.deadlineIsNaN /\ t.remainingMinutes > 0

NormalizeTasks(rows) ==
  LET accepted == SeqFilter(rows, RowAccepted)
      mapped == [i \in 1..Len(accepted) |-> ToInternalTask(accepted[i])]
  IN StableSort(SeqFilter(mapped, TaskKept), TaskBefore)

\* The deadline instant, in minutes from the start date's midnight.
DeadlineInstant(t) == t.deadlineDay * MinutesPerDay + DeadlineMinuteOfDay

maxDeadline ==
  LET days == {tasks[i].deadlineDay : i \in 1..Len(tasks)}
  IN CHOOSE d \in days : \A e \in days : e <= d

dayCount == maxDeadline + 1

\* totalWorkingDays counting every day of the range.
totalWorkingDaysAllDays == dayCount

totalWorkingDays == Cardinality({off \in 0..(dayCount - 1) : IsWorkingDay(off)})

\* ------------------------------------------------------- obligation index

\* weeklyByDay[weekday], specificByDate[dKey] and dailyObligations, in that order.
weekBlocked(off) ==
  LET Applies(o) == o.weekday = WeekdayOf(off) IN SeqFilter(weeklyObligations, Applies)

specificBlocked(off) ==
  LET Applies(o) == o.date = off IN SeqFilter(specificObligations, Applies)

ApplicableObligations(off) ==
  weekBlocked(off) \o specificBlocked(off) \o dailyObligations

\* RenderAccepted without the test of the order of the two times.
RenderAcceptedAnyOrder(o) ==
  LET sMin == parseTimeToMinutes(o.startTime)
      eMin == parseTimeToMinutes(o.endTime)
  IN sMin # NullMinutes /\ eMin # NullMinutes

\* The test before events.push of an obligation event.
RenderAccepted(o) ==
  LET sMin == parseTimeToMinutes(o.startTime)
      eMin == parseTimeToMinutes(o.endTime)
  IN sMin # NullMinutes /\ eMin # NullMinutes /\ eMin > sMin

\* The test before blockedIntervals.push.
BlockAccepted(o) ==
  LET s == parseTimeToMinutes(o.startTime)
      e == parseTimeToMinutes(o.endTime)
  IN s # NullMinutes /\ e # NullMinutes /\ e > s

\* o.label || the default title of the kind: the rows of the inputs have no
\* label, and the three default titles are one symbol.
ObligationTitle == <<"obligation">>

ObligationEvent(o, off) ==
  [kind |-> "obligation", day |-> off, start |-> parseTimeToMinutes(o.startTime),
   end |-> parseTimeToMinutes(o.endTime), task |-> Null, sub |-> 0,
   subtaskLabel |-> <<>>, row |-> o.id, title |-> ObligationTitle]

ObligationEvents(off) ==
  LET shown == SeqFilter(ApplicableObligations(off), RenderAccepted)
  IN [i \in 1..Len(shown) |-> ObligationEvent(shown[i], off)]

StartsBefore(a, b) == a[1] < b[1]

\* blockedIntervals with only the weekly obligations pushed.
blockedIntervalsWeeklyOnly(off) ==
  LET blocking == SeqFilter(weekBlocked(off), BlockAccepted)
      pairs == [i \in 1..Len(blocking) |->
                  <<parseTimeToMinutes(blocking[i].startTime),
                    parseTimeToMinutes(blocking[i].endTime)>>]
  IN StableSort(pairs, StartsBefore)

\* blockedIntervals without the daily obligations.
blockedIntervalsWithoutDaily(off) ==
  LET blocking == SeqFilter(weekBlocked(off) \o specificBlocked(off), BlockAccepted)
      pairs == [i \in 1..Len(blocking) |->
                  <<parseTimeToMinutes(blocking[i].startTime),
                    parseTimeToMinutes(blocking[i].endTime)>>]
  IN StableSort(pairs, StartsBefore)

blockedIntervals(off) ==
  LET blocking == SeqFilter(ApplicableObligations(off), BlockAccepted)
      pairs == [i \in 1..Len(blocking) |->
                  <<parseTimeToMinutes(blocking[i].startTime),
                    parseTimeToMinutes(blocking[i].endTime)>>]
  IN StableSort(pairs, StartsBefore)

\* The free windows of a day: the workday minus the blocked intervals, sorted.
FreeWindows(off) ==
  LET blocks == blockedIntervals(off)
      first == IF workEndMinutes > workStartMinutes
               THEN <<(<<workStartMinutes, workEndMinutes>>)>> ELSE <<>>
      F[i \in 0..Len(blocks)] ==
        IF i = 0 THEN first ELSE subtractInterval(F[i - 1], blocks[i])
  IN StableSort(F[Len(blocks)], StartsBefore)

\* ---------------------------------------------------- daily budget planner

remainingMinutesAll == SeqSum([i \in 1..Len(tasks) |-> tasks[i].remainingMinutes])

remainingWorkingDays == totalWorkingDays - workingDayIndex

\* spreadMultiplier without the load mode.
spreadMultiplierOne == <<1, 1>>

\* spreadMultiplier as num/den.
spreadMultiplier ==
  CASE settings.loadMode = "relaxed" -> <<3, 4>>
    [] settings.loadMode = "marathon" -> <<7, 5>>
    [] OTHER -> <<1, 1>>

\* DailyBudget with the full capacity on every day.
DailyBudgetAlwaysFull ==
  [num |-> Max(effectiveDailyMinutes, blockMinutes), den |-> 1]

\* DailyBudget without the floor at one block.
DailyBudgetNoBlockFloor ==
  LET den == 2 * spreadMultiplier[2] * remainingWorkingDays
      baseTarget == 2 * remainingMinutesAll * spreadMultiplier[1]
      full == effectiveDailyMinutes * den
      minFloor == effectiveDailyMinutes * spreadMultiplier[2] * remainingWorkingDays
      planned == IF remainingMinutesAll >= remainingWorkingDays * effectiveDailyMinutes
                 THEN full
                 ELSE Min(full, Max(baseTarget, minFloor))
  IN [num |-> planned, den |-> den]

\* The budget of the day as a fraction over den = 2 * mult.den * remainingWorkingDays.
DailyBudget ==
  LET den == 2 * spreadMultiplier[2] * remainingWorkingDays
      baseTarget == 2 * remainingMinutesAll * spreadMultiplier[1]
      full == effectiveDailyMinutes * den
      minFloor == effectiveDailyMinutes * spreadMultiplier[2] * remainingWorkingDays
      planned == IF remainingMinutesAll >= remainingWorkingDays * effectiveDailyMinutes
                 THEN full
                 ELSE Min(full, Max(baseTarget, minFloor))
  IN [num |-> IF planned < blockMinutes * den THEN blockMinutes * den ELSE planned,
      den |-> den]

\* ----------------------------------------------------------- slot allocator

getStudyMinutes(dayKey) ==
  IF dayKey \in DOMAIN perDayStudyMinutes THEN perDayStudyMinutes[dayKey] ELSE 0

getTaskDayMinutes(taskId, dayKey) ==
  IF <<taskId, dayKey>> \in DOMAIN perTaskPerDayMinutes
  THEN perTaskPerDayMinutes[<<taskId, dayKey>>] ELSE 0

winEnd == windows[winIdx][2]

baseBlock == Min(blockMinutes, winEnd - cursor)

allocCandidate(t) == Min(baseBlock, t.remainingMinutes)

\* MeetsDeadline without the buffer.
MeetsDeadlineNoBuffer(t) ==
  offset * MinutesPerDay + cursor + allocCandidate(t) <= DeadlineInstant(t)

\* The deadline test of a candidate: its slot must end by deadline - buffer.
MeetsDeadline(t) ==
  offset * MinutesPerDay + cursor + allocCandidate(t)
    <= DeadlineInstant(t) - bufferMinutes

\* WithinDayBudget without the test of the candidate's minutes.
WithinDayBudgetStartOnly(t) ==
  getStudyMinutes(offset) * dailyBudgetMinutes.den < dailyBudgetMinutes.num

WithinDayBudget(t) ==
  /\ getStudyMinutes(offset) * dailyBudgetMinutes.den < dailyBudgetMinutes.num
  /\ (getStudyMinutes(offset) + allocCandidate(t)) * dailyBudgetMinutes.den
       <= dailyBudgetMinutes.num

WithinTaskCap(t) ==
  /\ getTaskDayMinutes(t.id, offset) < effectiveTaskMinutesPerDay
  /\ getTaskDayMinutes(t.id, offset) + allocCandidate(t) <= effectiveTaskMinutesPerDay

\* IsCandidate without the test of ten minutes.
IsCandidateAnyLength(t) ==
  /\ t.remainingMinutes > 0
  /\ WithinDayBudget(t)
  /\ WithinTaskCap(t)
  /\ MeetsDeadline(t)

IsCandidate(t) ==
  /\ t.remainingMinutes > 0
  /\ WithinDayBudget(t)
  /\ WithinTaskCap(t)
  /\ allocCandidate(t) >= MinSlotMinutes
  /\ MeetsDeadline(t)

candidateIndices ==
  LET IsCand(i) == IsCandidate(tasks[i])
  IN SeqFilter([i \in 1..Len(tasks) |-> i], IsCand)

\* a/b < c/d for positive denominators, without multiplying across.
RECURSIVE RatLess(_, _, _, _)
RatLess(a, b, c, d) ==
  LET qa == a \div b
      qc == c \div d
      ra == a % b
      rc == c % d
  IN IF qa # qc THEN qa < qc
     ELSE IF rc = 0 THEN FALSE
     ELSE IF ra = 0 THEN TRUE
     ELSE RatLess(d, rc, b, ra)

\* scoreBase * diversityPenalty as a fraction.
Score(t) ==
  LET msDiff == DeadlineInstant(t) - offset * MinutesPerDay
      tenB == 10 * blockMinutes
      halve == IF lastTaskIdForDay # Null /\ t.id = lastTaskIdForDay THEN 2 ELSE 1
  IN IF msDiff <= MinutesPerDay
     THEN [num |-> (20 + t.priority) * tenB + t.remainingMinutes,
           den |-> tenB * halve]
     ELSE [num |-> 20 * MinutesPerDay * tenB + t.priority * msDiff * tenB
                     + t.remainingMinutes * msDiff,
           den |-> msDiff * tenB * halve]

ScoredBefore(a, b) == RatLess(b.score.num, b.score.den, a.score.num, a.score.den)

\* scored without its sort.
scoredUnsorted ==
  LET cs == candidateIndices
  IN [k \in 1..Len(cs) |-> [idx |-> cs[k], score |-> Score(tasks[cs[k]])]]

scored ==
  LET cs == candidateIndices
  IN StableSort([k \in 1..Len(cs) |-> [idx |-> cs[k], score |-> Score(tasks[cs[k]])]],
                ScoredBefore)

\* PickIndex without the substitution of a non-repeat.
PickTop(sc) == sc[1].idx

\* The diversity tie-break over the sorted candidates.
PickIndex(sc) ==
  LET top == sc[1].idx
      others == {k \in 1..Len(sc) : tasks[sc[k].idx].id # lastTaskIdForDay}
  IN IF lastTaskIdForDay # Null /\ Len(sc) > 1 /\ tasks[top].id = lastTaskIdForDay
        /\ others # {}
     THEN sc[CHOOSE k \in others : \A j \in others : k <= j].idx
     ELSE top

chosenIndex == PickIndex(scored)

\* alloc without the cap at the task's remaining minutes.
allocWholeBlock == baseBlock

alloc == Min(baseBlock, tasks[chosenIndex].remainingMinutes)

\* ------------------------------------------------------------------ inputs

\* The settings the families of inputs vary.
BaseSettings ==
  [startWeekday |-> 0, workdayStart |-> <<9, 0>>, workdayEnd |-> <<17, 0>>,
   dailyMaxHours |-> 240, maxTaskHoursPerDay |-> 180, blockMinutes |-> 60,
   breakMinutes |-> 0, bufferHours |-> 0, workingWeekdays |-> 0..6,
   loadMode |-> "medium", timezone |-> "Asia/Jerusalem"]

LoadModes == {"relaxed", "medium", "marathon"}

\* A title without an exam keyword.
PlainTitle == <<"T">>

\* A deadline text that is not a date.
NotADate == <<13, 1>>

Row(id, title, deadline, est, prio) ==
  [id |-> id, title |-> title, deadline |-> deadline, estimatedHours |-> est,
   priority |-> prio, notes |-> <<>>]

Rows(id, titles, deadlines, ests, prios) ==
  {Row(id, t, d, e, p) : t \in titles, d \in deadlines, e \in ests, p \in prios}

\* One or two rows drawn from the given fields.
RowLists(titles, deadlines, ests, prios) ==
  {<<a>> : a \in Rows("t1", titles, deadlines, ests, prios)}
    \cup {<<a, b>> : a \in Rows("t1", titles, deadlines, ests, prios),
                     b \in Rows("t2", titles, deadlines, ests, prios)}

DeadlineDays == {<<d>> : d \in 0..MaxDeadlineOffset}

\* Obligation times: before and into the workday, inside it, over all of it,
\* out of range, and ending before it starts.
PartTimes ==
  {<<(<<8, 0>>), (<<9, 30>>)>>, <<(<<10, 0>>), (<<11, 0>>)>>,
   <<(<<25, 0>>), (<<26, 0>>)>>, <<(<<11, 0>>), (<<10, 0>>)>>}

WholeDayTimes == {<<(<<9, 0>>), (<<17, 0>>)>>}

Input(st, rows, w, sp, da) ==
  [settings |-> st, assignments |-> rows, weekly |-> w, specific |-> sp, daily |-> da]

\* Family 1: load, caps, buffer and competing tasks; every day eligible.
LoadInputs ==
  {Input([BaseSettings EXCEPT !.dailyMaxHours = dm, !.maxTaskHoursPerDay = mt,
            !.blockMinutes = bl, !.bufferHours = bu, !.loadMode = lm],
         rows, <<>>, <<>>, <<>>) :
     dm \in {60, 240}, mt \in {60, 180}, bl \in {60, 90}, bu \in {0, 720},
     lm \in LoadModes,
     rows \in RowLists({PlainTitle}, DeadlineDays, {50, 120}, {1, 3})}

\* Family 2: obligations of the three kinds, eligible and excluded weekdays.
ObligationInputs ==
  {Input([BaseSettings EXCEPT !.startWeekday = sw[1], !.workingWeekdays = sw[2]],
         <<row>>, w, sp, da) :
     sw \in {<<0, 0..6>>, <<5, 0..4>>},
     row \in Rows("t1", {PlainTitle}, DeadlineDays, {50, 120}, {3}),
     w \in {<<>>} \cup {<<[id |-> "w1", weekday |-> wd, startTime |-> t[1],
                           endTime |-> t[2]]>> : wd \in {0, 5}, t \in PartTimes},
     sp \in {<<>>} \cup {<<[id |-> "s1", date |-> 1, startTime |-> t[1],
                            endTime |-> t[2]]>> : t \in PartTimes \cup WholeDayTimes},
     da \in {<<>>} \cup {<<[id |-> "d1", startTime |-> t[1], endTime |-> t[2]]>> :
                           t \in PartTimes}}

\* Family 3: rows the normalizer drops, deadlines before the start date.
RowInputs ==
  {Input([BaseSettings EXCEPT !.bufferHours = bu], rows, <<>>, <<>>, <<>>) :
     bu \in {0, 1440},
     rows \in RowLists({<<>>, PlainTitle}, {<<>>, <<-1>>, <<0>>, <<1>>, NotADate},
                       {0, 60}, {3})}

\* Family 4: one task of 120 minutes due three days after the start date, blocks
\* of 60, no break, a daily cap of 240, medium intensity, no obligations; every
\* set of eligible weekdays.
ScenarioInputs ==
  {Input([BaseSettings EXCEPT !.startWeekday = sw, !.workingWeekdays = ww],
         <<Row("t1", PlainTitle, <<3>>, 120, 3)>>, <<>>, <<>>, <<>>) :
     sw \in 0..6, ww \in SUBSET (0..6)}

\* Family 5: other workdays, breaks, and block lengths outside 15..240.
WindowInputs ==
  {Input([BaseSettings EXCEPT !.workdayStart = wd[1], !.workdayEnd = wd[2],
            !.blockMinutes = bl, !.breakMinutes = br],
         <<row>>, <<>>, <<>>, da) :
     wd \in {<<(<<9, 0>>), (<<17, 0>>)>>, <<(<<10, 30>>), (<<12, 0>>)>>,
             <<(<<17, 0>>), (<<9, 0>>)>>},
     bl \in {10, 60, 300}, br \in {0, 15, 90},
     row \in Rows("t1", {PlainTitle}, DeadlineDays, {50, 120}, {3}),
     da \in {<<>>, <<[id |-> "d1", startTime |-> <<11, 0>>, endTime |-> <<11, 30>>]>>}}

\* Family 6: an obligation over the whole workday, or more, on one date of the range.
WholeDayInputs ==
  {Input(BaseSettings, <<row>>, <<>>,
         <<[id |-> "s1", date |-> d, startTime |-> t[1], endTime |-> t[2]]>>, <<>>) :
     row \in Rows("t1", {PlainTitle}, DeadlineDays, {9, 50, 120}, {3}),
     d \in 0..MaxDeadlineOffset,
     t \in WholeDayTimes \cup {<<(<<8, 0>>), (<<18, 0>>)>>}}

\* Family 7: two tasks with one deadline and one priority, one block a day.
TieInputs ==
  {Input([BaseSettings EXCEPT !.dailyMaxHours = 60], rows, <<>>, <<>>, <<>>) :
     rows \in RowLists({PlainTitle}, {<<2>>}, {60, 120}, {3})}

\* Family 8: one task with notes: a bullet alone, an hours hint without a label,
\* one line, three lines.
NotesInputs ==
  {Input([BaseSettings EXCEPT !.blockMinutes = 30],
         <<[Row("t1", PlainTitle, <<1>>, est, 3) EXCEPT !.notes = notes]>>,
         <<>>, <<>>, <<>>) :
     est \in {50, 120},
     notes \in {<<(<<"*">>)>>, <<(<<",", "3">>)>>, <<(<<"-", " ", "read">>)>>,
                <<(<<"-", " ", "read">>), (<<" ", "write", " ">>),
                  (<<"draft", " ", "|", " ", "1", ".", "5">>)>>}}

\* Family 9: one long task, caps of ten hours, block lengths outside 15..240.
LongBlockInputs ==
  {Input([BaseSettings EXCEPT !.dailyMaxHours = 600, !.maxTaskHoursPerDay = 600,
            !.blockMinutes = bl],
         <<Row("t1", PlainTitle, <<0>>, est, 3)>>, <<>>, <<>>, <<>>) :
     bl \in {5, 300}, est \in {250, 300}}

Inputs ==
  LoadInputs \cup ObligationInputs \cup RowInputs \cup ScenarioInputs \cup WindowInputs
    \cup WholeDayInputs \cup TieInputs \cup NotesInputs \cup LongBlockInputs

\* The run before generateSchedule is entered.
RunIdle ==
  /\ pc = "start"
  /\ tasks = <<>>
  /\ offset = 0
  /\ workingDayIndex = 0
  /\ events = <<>>
  /\ unscheduled = <<>>
  /\ perDayStudyMinutes = <<>>
  /\ perTaskPerDayMinutes = <<>>
  /\ dailyBudgetMinutes = [num |-> 0, den |-> 1]
  /\ windows = <<>>
  /\ winIdx = 0
  /\ cursor = 0
  /\ lastTaskIdForDay = Null
  /\ budgetLog = <<>>
  /\ choiceLog = <<>>

\* The useState initial values of App's result state.
UiIdle ==
  /\ result = <<>>
  /\ icsContent = <<>>
  /\ error = ""
  /\ scheduleApproved = FALSE
  /\ hasDownloadedOnce = FALSE
  /\ uiPc = "idle"
  /\ lastAction = "none"
  /\ approvalsSinceGenerate = 0
  /\ downloads = <<>>
  /\ serialized = <<>>

Init ==
  /\ \E in \in Inputs :
       /\ settings = in.settings
       /\ assignments = in.assignments
       /\ weeklyObligations = in.weekly
       /\ specificObligations = in.specific
       /\ dailyObligations = in.daily
  /\ RunIdle
  /\ UiIdle
  /\ ivWindows = <<>>
  /\ ivBlocks = <<>>
  /\ ivStart = <<>>
  /\ ivDone = 0

\* ------------------------------------------------------------------ actions

\* The filter, map, filter and sort that open generateSchedule, and its early
\* return when no task is left.
Normalize ==
  /\ pc = "start"
  /\ tasks' = NormalizeTasks(assignments)
  /\ pc' = IF Len(tasks') = 0 THEN "done" ELSE "day"
  /\ UNCHANGED <<inputVars, offset, workingDayIndex, events, unscheduled,
                 perDayStudyMinutes, perTaskPerDayMinutes, dailyBudgetMinutes,
                 windows, winIdx, cursor, lastTaskIdForDay, budgetLog, choiceLog, ivVars, icsVars,
                 uiVars>>

anyTaskRemaining == \E i \in 1..Len(tasks) : tasks[i].remainingMinutes > 0

\* One iteration of the day loop, from its head to the first slot of the day, to
\* the `continue` that skips the day, or to the `break` that ends the loop.
DayStep ==
  /\ pc = "day"
  /\ offset < dayCount
  /\ events' = events \o ObligationEvents(offset)
  /\ IF ~IsWorkingDay(offset)
     THEN /\ offset' = offset + 1
          /\ UNCHANGED <<pc, workingDayIndex, dailyBudgetMinutes, windows, winIdx,
                         cursor, lastTaskIdForDay, budgetLog>>
     ELSE IF remainingMinutesAll <= 0 \/ remainingWorkingDays <= 0
     THEN /\ pc' = "finish"
          /\ UNCHANGED <<offset, workingDayIndex, dailyBudgetMinutes, windows, winIdx,
                         cursor, lastTaskIdForDay, budgetLog>>
     ELSE /\ dailyBudgetMinutes' = DailyBudget
          /\ budgetLog' = (offset :> DailyBudget) @@ budgetLog
          /\ workingDayIndex' = workingDayIndex + 1
          /\ windows' = FreeWindows(offset)
          /\ lastTaskIdForDay' = Null
          /\ IF Len(windows') = 0
             THEN /\ offset' = offset + 1
                  /\ UNCHANGED <<pc, winIdx, cursor>>
             ELSE IF ~anyTaskRemaining
             THEN /\ pc' = "finish"
                  /\ UNCHANGED <<offset, winIdx, cursor>>
             ELSE /\ pc' = "slot"
                  /\ winIdx' = 1
                  /\ cursor' = windows'[1][1]
                  /\ UNCHANGED offset
  /\ UNCHANGED <<inputVars, tasks, unscheduled, perDayStudyMinutes,
                 perTaskPerDayMinutes, choiceLog, ivVars, icsVars, uiVars>>

\* LeaveWindow back to the head of the same day.
LeaveWindowSameDay ==
  IF winIdx < Len(windows)
  THEN /\ winIdx' = winIdx + 1
       /\ cursor' = windows[winIdx + 1][1]
       /\ UNCHANGED <<pc, offset>>
  ELSE /\ pc' = "day"
       /\ UNCHANGED <<offset, winIdx, cursor>>

\* Leaving the slot loop of a window: on to the next window, or to the next day.
LeaveWindow ==
  IF winIdx < Len(windows)
  THEN /\ winIdx' = winIdx + 1
       /\ cursor' = windows[winIdx + 1][1]
       /\ UNCHANGED <<pc, offset>>
  ELSE /\ pc' = "day"
       /\ offset' = offset + 1
       /\ UNCHANGED <<winIdx, cursor>>

\* The head of the slot loop and its breaks.
SlotOpen ==
  /\ cursor < winEnd
  /\ anyTaskRemaining
  /\ winEnd - cursor >= MinSlotMinutes
  /\ getStudyMinutes(offset) * dailyBudgetMinutes.den < dailyBudgetMinutes.num
  /\ Len(candidateIndices) > 0

TaskEvent(task, mins) ==
  [kind |-> "task", day |-> offset, start |-> cursor, end |-> cursor + mins,
   task |-> task.id, sub |-> IF Len(task.subtasks) > 0 THEN task.nextSubIndex ELSE 0,
   subtaskLabel |-> IF Len(task.subtasks) > 0
                    THEN task.subtasks[task.nextSubIndex + 1] ELSE <<>>,
   row |-> Null,
   title |-> IF Len(task.subtasks) > 0 /\ Len(task.subtasks[task.nextSubIndex + 1]) > 0
             THEN task.title \o <<" - ">> \o task.subtasks[task.nextSubIndex + 1]
             ELSE task.title]

\* addStudyMinutes storing the minutes of the block instead of adding them.
addStudyMinutesOverwrite(dayKey, taskId, minutes) ==
  /\ perDayStudyMinutes' = (dayKey :> minutes) @@ perDayStudyMinutes
  /\ perTaskPerDayMinutes' = (<<taskId, dayKey>> :> minutes) @@ perTaskPerDayMinutes

\* addStudyMinutes.
addStudyMinutes(dayKey, taskId, minutes) ==
  /\ perDayStudyMinutes' =
       (dayKey :> (getStudyMinutes(dayKey) + minutes)) @@ perDayStudyMinutes
  /\ perTaskPerDayMinutes' =
       (<<taskId, dayKey>> :> (getTaskDayMinutes(taskId, dayKey) + minutes))
         @@ perTaskPerDayMinutes

\* rowsAfterBlock with the task being the row itself, not a copy of it.
rowsAfterBlockShared(rows, id, mins) ==
  [i \in 1..Len(rows) |->
     IF rows[i].id = id THEN [remainingMinutes |-> rows[i].estimatedHours - mins] @@ rows[i]
     ELSE rows[i]]

\* The rows after task.remainingMinutes -= alloc and the move of nextSubIndex:
\* the task is the copy { ...a, ... } the normalizer made, so no row changes.
rowsAfterBlock(rows, id, mins) == rows

\* One iteration of the slot loop: a block for the chosen task, or a break.
SlotStep ==
  /\ pc = "slot"
  /\ IF ~SlotOpen
     THEN /\ LeaveWindow
          /\ UNCHANGED <<assignments, tasks, events, perDayStudyMinutes,
                         perTaskPerDayMinutes, lastTaskIdForDay, choiceLog>>
     ELSE \E chosen \in {chosenIndex} : \E task \in {tasks[chosen]} :
          \E mins \in {alloc} : \E cands \in {candidateIndices} :
          \E top \in {scored[1].idx} :
             /\ events' = Append(events, TaskEvent(task, mins))
             /\ tasks' = [tasks EXCEPT
                  ![chosen].remainingMinutes = @ - mins,
                  ![chosen].nextSubIndex =
                     IF Len(task.subtasks) > 0
                     THEN (@ + 1) % Len(task.subtasks) ELSE @]
             /\ assignments' = rowsAfterBlock(assignments, task.id, mins)
             /\ addStudyMinutes(offset, task.id, mins)
             /\ lastTaskIdForDay' = task.id
             /\ cursor' = cursor + mins + breakMinutes
             /\ choiceLog' = Append(choiceLog,
                  [chosen |-> task.id, previous |-> lastTaskIdForDay,
                   top |-> tasks[top].id,
                   eligible |-> {tasks[cands[k]].id : k \in 1..Len(cands)},
                   chosenIndex |-> chosen, candidateIndices |-> cands,
                   day |-> offset,
                   remaining |-> [i \in 1..Len(tasks) |-> tasks[i].remainingMinutes]])
             /\ UNCHANGED <<pc, offset, winIdx>>
  /\ UNCHANGED <<weeklyObligations, specificObligations, dailyObligations, settings,
                 workingDayIndex, unscheduled, dailyBudgetMinutes, windows,
                 budgetLog, ivVars, icsVars, uiVars>>

\* events.sort: by the start string, date then time of day.
EventBefore(a, b) == a.day < b.day \/ (a.day = b.day /\ a.start < b.start)

\* StillRemaining with the threshold of a slot.
StillRemainingASlot(t) == t.remainingMinutes >= MinSlotMinutes

StillRemaining(t) == t.remainingMinutes > 0

\* Number((minutes / 60).toFixed(1)) in tenths of an hour: the values it can take.
\* toFixed rounds the double nearest to minutes / 60 and takes the larger
\* neighbour on a tie.  When minutes / 60 is midway between two tenths the tie
\* is real only if the quotient is a double (a multiple of a quarter); otherwise
\* the double lies just below or just above the midpoint, depending on the
\* minutes, and both neighbours are kept.
toFixed1(minutes) ==
  IF minutes % 6 # 3 \/ minutes % 15 = 0 THEN {(minutes + 3) \div 6}
  ELSE {(minutes - 3) \div 6, (minutes + 3) \div 6}

\* After the day loop: the unscheduled list and the sorted events.  An entry
\* keeps the task's id and minutes beside the remainingHours of the source.
Finish ==
  /\ pc = "finish" \/ (pc = "day" /\ offset >= dayCount)
  /\ LET left == SeqFilter(tasks, StillRemaining)
         tenths == UNION {toFixed1(left[i].remainingMinutes) : i \in 1..Len(left)}
     IN \E hours \in [1..Len(left) -> tenths] :
          /\ \A i \in 1..Len(left) : hours[i] \in toFixed1(left[i].remainingMinutes)
          /\ unscheduled' =
               [i \in 1..Len(left) |->
                  [id |-> left[i].id, remainingMinutes |-> left[i].remainingMinutes,
                   remainingHours |-> hours[i]]]
  /\ events' = StableSort(events, EventBefore)
  /\ pc' = "done"
  /\ UNCHANGED <<inputVars, tasks, offset, workingDayIndex, perDayStudyMinutes,
                 perTaskPerDayMinutes, dailyBudgetMinutes, windows, winIdx, cursor,
                 lastTaskIdForDay, budgetLog, choiceLog, ivVars, icsVars, uiVars>>

Next == Normalize \/ DayStep \/ SlotStep \/ Finish

Spec == Init /\ [][Next]_vars

\* generateSchedule is one synchronous call: while a step of it is left to take,
\* it is taken.
\* The runs checked for their end: two tasks with one block a day, and one task
\* with blocks of 30 or 60 minutes, with or without a break, and an obligation
\* over a part or the whole of the workday of the second day.
LiveInputs ==
  TieInputs \cup
  {Input([BaseSettings EXCEPT !.blockMinutes = bl, !.breakMinutes = br],
         <<row>>, <<>>,
         <<[id |-> "s1", date |-> 1, startTime |-> t[1], endTime |-> t[2]]>>, <<>>) :
     bl \in {30, 60}, br \in {0, 15},
     row \in Rows("t1", {PlainTitle}, {<<1>>, <<2>>}, {50, 120}, {3}),
     t \in WholeDayTimes \cup {<<(<<10, 0>>), (<<11, 0>>)>>}}

InitLive ==
  /\ \E in \in LiveInputs :
       /\ settings = in.settings
       /\ assignments = in.assignments
       /\ weeklyObligations = in.weekly
       /\ specificObligations = in.specific
       /\ dailyObligations = in.daily
  /\ RunIdle
  /\ UiIdle
  /\ ivWindows = <<>>
  /\ ivBlocks = <<>>
  /\ ivStart = <<>>
  /\ ivDone = 0

SpecLive == InitLive /\ [][Next]_vars /\ WF_vars(Next)

\* ----------------------------------------- subtractInterval on its own

\* Intervals over 0..MaxPoint, with the empty and the inverted ones.
Intervals == (0..MaxPoint) \X (0..MaxPoint)

IntervalLists == {<<>>} \cup {<<a>> : a \in Intervals} \cup (Intervals \X Intervals)

InitInterval ==
  /\ settings = BaseSettings
  /\ assignments = <<>>
  /\ weeklyObligations = <<>>
  /\ specificObligations = <<>>
  /\ dailyObligations = <<>>
  /\ RunIdle
  /\ UiIdle
  /\ ivStart \in IntervalLists
  /\ ivBlocks \in IntervalLists
  /\ ivWindows = ivStart
  /\ ivDone = 0

\* blockedIntervals.forEach(block => windows = subtractInterval(windows, block)):
\* one step of the fold.
FoldStep ==
  /\ ivDone < Len(ivBlocks)
  /\ ivWindows' = subtractInterval(ivWindows, ivBlocks[ivDone + 1])
  /\ ivDone' = ivDone + 1
  /\ UNCHANGED <<inputVars, runVars, ivBlocks, ivStart, icsVars, uiVars>>

NextInterval == FoldStep

SpecInterval == InitInterval /\ [][NextInterval]_vars

\* ------------------------------------------ the task normalizer on its own

\* The most lines of a notes field.
MaxNoteLines == 3

\* Lines of notes: empty, blank, bulleted, plain, a bullet alone, with an hours
\* hint, a hint without a label, with a comma that is no hint.
NoteLines ==
  {<<>>, <<" ">>, <<"-", " ", "read">>, <<" ", "write", " ">>, <<"*">>,
   <<"bullet", "draft", " ", "|", " ", "1", ".", "5">>, <<",", "3">>,
   <<"cite", ",", " ", "etc">>}

NotesTexts == UNION {[1..n -> NoteLines] : n \in 0..MaxNoteLines}

NoteTitles == {PlainTitle, <<"Q", "u", "i", "z", " ", "2">>}

\* Estimates in minutes on both sides of the thresholds of proposeSubtasks.
NoteEstimates == {90, 120, 180, 240}

InitNotes ==
  /\ settings = BaseSettings
  /\ \E title \in NoteTitles : \E est \in NoteEstimates : \E notes \in NotesTexts :
       assignments = <<[Row("t1", title, <<0>>, est, 3) EXCEPT !.notes = notes]>>
  /\ weeklyObligations = <<>>
  /\ specificObligations = <<>>
  /\ dailyObligations = <<>>
  /\ RunIdle
  /\ UiIdle
  /\ ivWindows = <<>>
  /\ ivBlocks = <<>>
  /\ ivStart = <<>>
  /\ ivDone = 0

NextNotes == Normalize

SpecNotes == InitNotes /\ [][NextNotes]_vars

\* ------------------------------------------- the application around the run
\* App's handlers.  A handler runs to its end before another starts; while
\* handleGenerate is inside generateSchedule, uiPc is "generating" and the steps
\* of the run are the only steps.  The state variables hold the values last set.

\* The most downloads a behaviour holds.
MaxDownloads == 2

\* The estimates updateAssignment sets, in minutes: none, one block, two blocks.
UIEstimates == {0, 60, 120}

\* The deadlines updateAssignment sets: the start date, not a date.
UIDeadlines == {<<0>>, NotADate}

ErrNoValid == "no assignment with a deadline and estimated hours"

ErrNoBlocks == "no blocks were created"

\* pad2 of a number below 100: its two digits.
pad2(n) == <<n \div 10, n % 10>>

\* The start and end strings of an event, `${dKey}T${pad2(h)}:${pad2(m)}`: the
\* day, then the four digits.
startText(ev) == <<ev.day>> \o pad2(ev.start \div 60) \o pad2(ev.start % 60)

endText(ev) == <<ev.day>> \o pad2(ev.end \div 60) \o pad2(ev.end % 60)

\* a < b on two such strings: the first place where they differ decides.
TextLess(a, b) ==
  \E i \in 1..Len(a) : a[i] < b[i] /\ \A j \in 1..(i - 1) : a[j] = b[j]

\* The comparator of buildIcs's sort.
IcsBefore(a, b) == TextLess(startText(a), startText(b))

\* The string split and read as numbers, then formatIcsDateTime of the date:
\* the day, hours, minutes and seconds in two digits each.
formatIcsDateTime(text) ==
  LET hh == text[2] * 10 + text[3]
      mn == text[4] * 10 + text[5]
  IN <<text[1]>> \o pad2(hh) \o pad2(mn) \o pad2(0)

icsEscape(str) ==
  LET Escaped(c) ==
        CASE c = "\\" -> <<"\\", "\\">>
          [] c = ";" -> <<"\\", ";">>
          [] c = "," -> <<"\\", ",">>
          [] c = "\n" -> <<"\\", "n">>
          [] OTHER -> <<c>>
      F[i \in 0..Len(str)] == IF i = 0 THEN <<>> ELSE F[i - 1] \o Escaped(str[i])
  IN F[Len(str)]

\* The lines of one VEVENT with one UID for every event.
VEventLinesSameUid(ev, index, tzid, stamp) ==
  <<(<<"BEGIN:VEVENT">>),
    (<<"UID", 1>>),
    (<<"DTSTAMP", stamp>>),
    (<<"DTSTART", tzid, formatIcsDateTime(startText(ev))>>),
    (<<"DTEND", tzid, formatIcsDateTime(endText(ev))>>),
    (<<"SUMMARY", icsEscape(ev.title)>>),
    (<<"END:VEVENT">>)>>

\* The lines of one VEVENT; DESCRIPTION is left out.
VEventLines(ev, index, tzid, stamp) ==
  <<(<<"BEGIN:VEVENT">>),
    (<<"UID", index>>),
    (<<"DTSTAMP", stamp>>),
    (<<"DTSTART", tzid, formatIcsDateTime(startText(ev))>>),
    (<<"DTEND", tzid, formatIcsDateTime(endText(ev))>>),
    (<<"SUMMARY", icsEscape(ev.title)>>),
    (<<"END:VEVENT">>)>>

\* buildIcs without its sort.
buildIcsUnsorted(evs, timezone, stamp) ==
  LET tzid == IF timezone = "" THEN "Asia/Jerusalem" ELSE timezone
      sorted == evs
      F[i \in 0..Len(sorted)] ==
        IF i = 0
        THEN <<(<<"BEGIN:VCALENDAR">>), (<<"VERSION:2.0">>),
               (<<"PRODID:-//MahHaloz//Planner//HE">>), (<<"CALSCALE:GREGORIAN">>),
               (<<"METHOD:PUBLISH">>)>>
        ELSE F[i - 1] \o VEventLines(sorted[i], i, tzid, stamp)
  IN F[Len(sorted)] \o <<(<<"END:VCALENDAR">>)>>

\* buildIcs: the document as the sequence of its lines.  stamp is new Date().
buildIcs(evs, timezone, stamp) ==
  LET tzid == IF timezone = "" THEN "Asia/Jerusalem" ELSE timezone
      sorted == StableSort(evs, IcsBefore)
      F[i \in 0..Len(sorted)] ==
        IF i = 0
        THEN <<(<<"BEGIN:VCALENDAR">>), (<<"VERSION:2.0">>),
               (<<"PRODID:-//MahHaloz//Planner//HE">>), (<<"CALSCALE:GREGORIAN">>),
               (<<"METHOD:PUBLISH">>)>>
        ELSE F[i - 1] \o VEventLines(sorted[i], i, tzid, stamp)
  IN F[Len(sorted)] \o <<(<<"END:VCALENDAR">>)>>

\* A document without its DTSTAMP lines.
WithoutStamp(doc) == SeqFilter(doc, LAMBDA line : line[1] # "DTSTAMP")

\* The moments a document can be made at.
Stamps == {1, 2}

InitUI ==
  /\ settings = BaseSettings
  /\ \E est \in UIEstimates : assignments = <<Row("t1", PlainTitle, <<0>>, est, 3)>>
  /\ weeklyObligations = <<>>
  /\ specificObligations = <<>>
  /\ dailyObligations = <<>>
  /\ RunIdle
  /\ UiIdle
  /\ ivWindows = <<>>
  /\ ivBlocks = <<>>
  /\ ivStart = <<>>
  /\ ivDone = 0

\* updateAssignment(id, patch) with a patch of estimatedHours or of deadline:
\* only the rows change.
updateAssignment ==
  /\ uiPc = "idle"
  /\ \E i \in 1..Len(assignments) :
       \/ \E est \in UIEstimates :
            /\ est # assignments[i].estimatedHours
            /\ assignments' = [assignments EXCEPT ![i].estimatedHours = est]
       \/ \E text \in UIDeadlines :
            /\ text # assignments[i].deadline
            /\ assignments' = [assignments EXCEPT ![i].deadline = text]
  /\ lastAction' = "edit"
  /\ UNCHANGED <<weeklyObligations, specificObligations, dailyObligations, settings,
                 runVars, ivVars, icsVars, result, icsContent, error, scheduleApproved,
                 hasDownloadedOnce, uiPc, approvalsSinceGenerate, downloads>>

hasValid == \E i \in 1..Len(assignments) : RowAccepted(assignments[i])

\* generateSchedule is entered: its locals are fresh.
RunReset ==
  /\ pc' = "start"
  /\ tasks' = <<>>
  /\ offset' = 0
  /\ workingDayIndex' = 0
  /\ events' = <<>>
  /\ unscheduled' = <<>>
  /\ perDayStudyMinutes' = <<>>
  /\ perTaskPerDayMinutes' = <<>>
  /\ dailyBudgetMinutes' = [num |-> 0, den |-> 1]
  /\ windows' = <<>>
  /\ winIdx' = 0
  /\ cursor' = 0
  /\ lastTaskIdForDay' = Null
  /\ budgetLog' = <<>>
  /\ choiceLog' = <<>>

\* handleGenerate without setScheduleApproved(false).
handleGenerateKeepingApproval ==
  /\ uiPc = "idle"
  /\ hasDownloadedOnce' = FALSE
  /\ result' = <<>>
  /\ icsContent' = <<>>
  /\ approvalsSinceGenerate' = 0
  /\ lastAction' = "generate"
  /\ IF ~hasValid
     THEN error' = ErrNoValid /\ uiPc' = "idle" /\ UNCHANGED runVars
     ELSE error' = "" /\ uiPc' = "generating" /\ RunReset
  /\ UNCHANGED <<inputVars, ivVars, icsVars, downloads, scheduleApproved>>

\* handleGenerate up to the call of generateSchedule, or to its return when no
\* row is valid.
handleGenerate ==
  /\ uiPc = "idle"
  /\ scheduleApproved' = FALSE
  /\ hasDownloadedOnce' = FALSE
  /\ result' = <<>>
  /\ icsContent' = <<>>
  /\ approvalsSinceGenerate' = 0
  /\ lastAction' = "generate"
  /\ IF ~hasValid
     THEN error' = ErrNoValid /\ uiPc' = "idle" /\ UNCHANGED runVars
     ELSE error' = "" /\ uiPc' = "generating" /\ RunReset
  /\ UNCHANGED <<inputVars, ivVars, icsVars, downloads>>

\* The steps of generateSchedule inside handleGenerate.
generateScheduleStep ==
  /\ uiPc = "generating"
  /\ (Normalize \/ DayStep \/ SlotStep \/ Finish)

\* handleGenerate from the return of generateSchedule to its end.
handleGenerateReturn ==
  /\ uiPc = "generating"
  /\ pc = "done"
  /\ result' = <<[events |-> events, unscheduled |-> unscheduled]>>
  /\ IF Len(events) = 0
     THEN error' = ErrNoBlocks /\ UNCHANGED icsContent
     ELSE /\ \E stamp \in Stamps :
               icsContent' = <<buildIcs(events, settings.timezone, stamp)>>
          /\ UNCHANGED error
  /\ uiPc' = "idle"
  /\ UNCHANGED <<inputVars, runVars, ivVars, icsVars, scheduleApproved, hasDownloadedOnce,
                 lastAction, approvalsSinceGenerate, downloads>>

\* approveSchedule enabled with any result, with events or without.
approveScheduleAnyResult ==
  /\ uiPc = "idle"
  /\ result # <<>>
  /\ ~scheduleApproved
  /\ scheduleApproved' = TRUE
  /\ approvalsSinceGenerate' = approvalsSinceGenerate + 1
  /\ lastAction' = "approve"
  /\ UNCHANGED <<inputVars, runVars, ivVars, icsVars, result, icsContent, error,
                 hasDownloadedOnce, uiPc, downloads>>

\* The approve button: enabled with a result that has events and is not approved.
approveSchedule ==
  /\ uiPc = "idle"
  /\ result # <<>>
  /\ Len(result[1].events) > 0
  /\ ~scheduleApproved
  /\ scheduleApproved' = TRUE
  /\ approvalsSinceGenerate' = approvalsSinceGenerate + 1
  /\ lastAction' = "approve"
  /\ UNCHANGED <<inputVars, runVars, ivVars, icsVars, result, icsContent, error,
                 hasDownloadedOnce, uiPc, downloads>>

\* DownloadEnabled without the approval.
DownloadEnabledUnapproved == icsContent # <<>>

\* The guard of handleDownloadIcs, and of its button.
DownloadEnabled == icsContent # <<>> /\ scheduleApproved

\* handleDownloadIcs: the file holds icsContent.
handleDownloadIcs ==
  /\ uiPc = "idle"
  /\ DownloadEnabled
  /\ Len(downloads) < MaxDownloads
  /\ downloads' = Append(downloads, [ics |-> WithoutStamp(icsContent[1]),
                                     inputs |-> inputVars])
  /\ hasDownloadedOnce' = TRUE
  /\ lastAction' = "download"
  /\ UNCHANGED <<inputVars, runVars, ivVars, icsVars, result, icsContent, error,
                 scheduleApproved, uiPc, approvalsSinceGenerate>>

NextUI ==
  \/ updateAssignment
  \/ handleGenerate
  \/ generateScheduleStep
  \/ handleGenerateReturn
  \/ approveSchedule
  \/ handleDownloadIcs

SpecUI == InitUI /\ [][NextUI]_vars

\* ------------------------------------------------------------------ buildIcs
\* SpecIcs: buildIcs on an event list, and then on a reordering of that list.

\* The longest event list.
MaxIcsEvents == 3

IcsEvent(day, start, end, title) ==
  [kind |-> "task", day |-> day, start |-> start, end |-> end, task |-> "t1",
   sub |-> 0, subtaskLabel |-> <<>>, row |-> Null, title |-> title]

\* Events as generateSchedule makes them: two of them start at the same instant.
IcsEvents ==
  {IcsEvent(0, 545, 590, <<"A">>), IcsEvent(0, 545, 600, <<"B", ";", "c">>),
   IcsEvent(0, 600, 650, <<"A">>), IcsEvent(1, 540, 590, <<"A", ",", "\\">>)}

IcsEventLists == UNION {[1..n -> IcsEvents] : n \in 0..MaxIcsEvents}

IcsTimezones == {"", "Europe/Paris"}

\* The same events in every order.
Reorderings(evs) ==
  {[i \in 1..Len(evs) |-> evs[p[i]]] : p \in Permutations(1..Len(evs))}

InitIcs ==
  /\ \E tz \in IcsTimezones : settings = [BaseSettings EXCEPT !.timezone = tz]
  /\ assignments = <<>>
  /\ weeklyObligations = <<>>
  /\ specificObligations = <<>>
  /\ dailyObligations = <<>>
  /\ pc = "done"
  /\ tasks = <<>>
  /\ offset = 0
  /\ workingDayIndex = 0
  /\ events \in IcsEventLists
  /\ unscheduled = <<>>
  /\ perDayStudyMinutes = <<>>
  /\ perTaskPerDayMinutes = <<>>
  /\ dailyBudgetMinutes = [num |-> 0, den |-> 1]
  /\ windows = <<>>
  /\ winIdx = 0
  /\ cursor = 0
  /\ lastTaskIdForDay = Null
  /\ budgetLog = <<>>
  /\ choiceLog = <<>>
  /\ UiIdle
  /\ ivWindows = <<>>
  /\ ivBlocks = <<>>
  /\ ivStart = <<>>
  /\ ivDone = 0

\* const ics = buildIcs(events, settings.timezone): the first call on the list as
\* it is, the second on any reordering of it.
serialize ==
  /\ Len(serialized) < 2
  /\ \E stamp \in Stamps :
       \E evs \in (IF serialized = <<>> THEN {events} ELSE Reorderings(events)) :
         LET ics == buildIcs(evs, settings.timezone, stamp)
         IN /\ serialized' = Append(serialized, [events |-> evs, ics |-> ics])
            /\ icsContent' = <<ics>>
  /\ UNCHANGED <<inputVars, runVars, ivVars, result, error, scheduleApproved,
                 hasDownloadedOnce, uiPc, lastAction, approvalsSinceGenerate, downloads>>

NextIcs == serialize

SpecIcs == InitIcs /\ [][NextIcs]_vars

\* ----------------------------------------------------- reading the result

IsTaskEvent(e) == e.kind = "task"

TaskEventSeq == SeqFilter(events, IsTaskEvent)

TaskEventSet == {events[i] : i \in {j \in 1..Len(events) : events[j].kind = "task"}}

ObligationEventSet ==
  {events[i] : i \in {j \in 1..Len(events) : events[j].kind = "obligation"}}

\* The input row with the given id.
RowOf(id) == CHOOSE a \in {assignments[i] : i \in 1..Len(assignments)} : a.id = id

RowIds == {assignments[i].id : i \in 1..Len(assignments)}

EventMinutes(e) == e.end - e.start

\* The minutes of the task events of task id, over all days and on one day.
MinutesOfTask(id) ==
  LET es == SeqFilter(events, LAMBDA e : e.kind = "task" /\ e.task = id)
  IN SeqSum([i \in 1..Len(es) |-> EventMinutes(es[i])])

MinutesOfDay(d) ==
  LET es == SeqFilter(events, LAMBDA e : e.kind = "task" /\ e.day = d)
  IN SeqSum([i \in 1..Len(es) |-> EventMinutes(es[i])])

MinutesOfTaskOnDay(id, d) ==
  LET es == SeqFilter(events, LAMBDA e : e.kind = "task" /\ e.task = id /\ e.day = d)
  IN SeqSum([i \in 1..Len(es) |-> EventMinutes(es[i])])

\* An obligation row of any kind applies to day d and is well formed.
WellFormed(o) ==
  /\ Len(o.startTime) = 2 /\ Len(o.endTime) = 2
  /\ o.startTime[1] \in 0..23 /\ o.startTime[2] \in 0..59
  /\ o.endTime[1] \in 0..23 /\ o.endTime[2] \in 0..59
  /\ o.endTime[1] * 60 + o.endTime[2] > o.startTime[1] * 60 + o.startTime[2]

ObligationsOn(d) ==
  {weeklyObligations[i] : i \in {j \in 1..Len(weeklyObligations) :
       weeklyObligations[j].weekday = (settings.startWeekday + d) % 7}}
  \cup {specificObligations[i] : i \in {j \in 1..Len(specificObligations) :
       specificObligations[j].date = d}}
  \cup {dailyObligations[i] : i \in 1..Len(dailyObligations)}

\* ------------------------------------------------------------------ claims

\* C1: every task event ends no later than its task's deadline (23:59 of the
\* deadline date) minus the configured buffer, bufferHours x 60 minutes.
C1_EndsBeforeBufferedDeadline ==
  \A e \in TaskEventSet :
    e.day * 1440 + e.end
      <= (RowOf(e.task).deadline[1] * 1440 + 23 * 60 + 59) - settings.bufferHours

\* A finished run with a buffer in which a task got a block on its deadline day
\* and kept work the buffer did not let it place.
C1_Witness ==
  /\ pc = "done"
  /\ settings.bufferHours > 0
  /\ \E e \in TaskEventSet :
       /\ e.day = RowOf(e.task).deadline[1]
       /\ \E i \in 1..Len(unscheduled) : unscheduled[i].id = e.task

\* C2: remainingMinutes is never negative and never increases, and the minutes
\* of a task's events never exceed its estimate round(estimatedHours x 60).
C2_RemainingAndEstimate ==
  /\ [](\A i \in 1..Len(tasks) :
          /\ tasks[i].remainingMinutes >= 0
          /\ MinutesOfTask(tasks[i].id) <= RowOf(tasks[i].id).estimatedHours)
  /\ [][pc # "start" =>
          \A i \in 1..Len(tasks) : \E j \in 1..Len(tasks') :
             /\ tasks'[j].id = tasks[i].id
             /\ tasks'[j].remainingMinutes <= tasks[i].remainingMinutes]_vars

\* A finished run in which one task was placed whole in more than one block, the
\* last shorter than a block, and another kept work.
C2_Witness ==
  /\ pc = "done"
  /\ \E i \in 1..Len(tasks) :
       /\ tasks[i].remainingMinutes = 0
       /\ Cardinality({e \in TaskEventSet : e.task = tasks[i].id}) >= 2
       /\ \E e \in TaskEventSet : e.task = tasks[i].id /\ EventMinutes(e) < blockMinutes
  /\ \E i \in 1..Len(tasks) : tasks[i].remainingMinutes > 0

\* C3: the task minutes of a day never exceed the budget computed for that day,
\* and the minutes of one task on one day never exceed the per-task per-day cap.
C3_DayBudgetAndTaskCap ==
  \A d \in {e.day : e \in TaskEventSet} :
    /\ d \in DOMAIN budgetLog
    /\ MinutesOfDay(d) * budgetLog[d].den <= budgetLog[d].num
    /\ \A id \in RowIds :
         MinutesOfTaskOnDay(id, d)
           <= Max(15, RoundMul(settings.maxTaskHoursPerDay, ratio, 10))

\* A finished run with a day that used its budget to the minute with two tasks
\* that each reached the per-task cap.
C3_Witness ==
  /\ pc = "done"
  /\ \E d \in DOMAIN budgetLog :
       /\ MinutesOfDay(d) * budgetLog[d].den = budgetLog[d].num
       /\ Cardinality({id \in RowIds :
            MinutesOfTaskOnDay(id, d) = effectiveTaskMinutesPerDay}) = 2

\* C4: no task event overlaps a well-formed obligation of its day, and every
\* task event lies inside [workdayStart, workdayEnd].
C4_NoOverlapInsideWorkday ==
  \A e \in TaskEventSet :
    /\ \A o \in ObligationsOn(e.day) :
         WellFormed(o) =>
           ~(e.start < o.endTime[1] * 60 + o.endTime[2]
             /\ o.startTime[1] * 60 + o.startTime[2] < e.end)
    /\ settings.workdayStart[1] * 60 + settings.workdayStart[2] <= e.start
    /\ e.end <= settings.workdayEnd[1] * 60 + settings.workdayEnd[2]

\* A finished run with a task event that ends where an obligation inside the
\* workday starts and another that starts where it ends.
C4_Witness ==
  /\ pc = "done"
  /\ \E e1, e2 \in TaskEventSet : \E o \in ObligationsOn(e1.day) :
       /\ WellFormed(o)
       /\ e2.day = e1.day
       /\ e1.end = o.startTime[1] * 60 + o.startTime[2]
       /\ e2.start = o.endTime[1] * 60 + o.endTime[2]

\* C5: when the run returns with tasks, every well-formed obligation applicable
\* to a day from the start date to the latest deadline has its event on that day.
C5_ObligationsOnEveryDay ==
  (pc = "done" /\ Len(tasks) > 0) =>
    \A d \in 0..maxDeadline : \A o \in ObligationsOn(d) :
      WellFormed(o) => \E e \in ObligationEventSet : e.day = d /\ e.row = o.id

\* C6: no task event is on a day whose weekday is not an eligible weekday.
C6_OnlyEligibleWeekdays ==
  \A e \in TaskEventSet :
    (settings.startWeekday + e.day) % 7 \in settings.workingWeekdays

\* A finished run that skipped an excluded day and placed a block after it.
C6_Witness ==
  /\ pc = "done"
  /\ \E e \in TaskEventSet : \E d \in 0..e.day :
       (settings.startWeekday + d) % 7 \notin settings.workingWeekdays

\* C7: the task minutes of a day never exceed dailyMaxHours x 60.
C7_DailyMaxRespected ==
  \A d \in {e.day : e \in TaskEventSet} : MinutesOfDay(d) <= settings.dailyMaxHours

\* The scenario of C9; the per-task cap is the default 3 hours and there is no
\* deadline buffer.
IsScenario ==
  /\ Len(assignments) = 1
  /\ assignments[1].estimatedHours = 120
  /\ assignments[1].deadline = <<3>>
  /\ settings.workdayStart = <<9, 0>> /\ settings.workdayEnd = <<17, 0>>
  /\ settings.blockMinutes = 60 /\ settings.breakMinutes = 0
  /\ settings.dailyMaxHours = 240 /\ settings.loadMode = "medium"
  /\ settings.maxTaskHoursPerDay = 180 /\ settings.bufferHours = 0
  /\ weeklyObligations = <<>> /\ specificObligations = <<>> /\ dailyObligations = <<>>

\* The eligible days from the start date to the deadline of the scenario.
ScenarioEligibleDays ==
  {d \in 0..3 : (settings.startWeekday + d) % 7 \in settings.workingWeekdays}

FirstOf(S) == CHOOSE d \in S : \A e \in S : d <= e

\* C9 as stated: in the scenario the run produces exactly two 60-minute task
\* events, both on the first eligible day.
C9_TwoBlocksOnFirstDay ==
  (pc = "done" /\ IsScenario /\ ScenarioEligibleDays # {}) =>
    /\ Len(TaskEventSeq) = 2
    /\ \A e \in TaskEventSet :
         EventMinutes(e) = 60 /\ e.day = FirstOf(ScenarioEligibleDays)

\* C9 amended: in the scenario the run produces exactly two 60-minute task
\* events and leaves nothing unscheduled; both are on the eligible day when the
\* range has one eligible day, otherwise the first is on the first eligible day
\* and the second on the second eligible day, each at 09:00.
C9_TwoBlocksOnFirstDays ==
  (pc = "done" /\ IsScenario /\ ScenarioEligibleDays # {}) =>
    LET first == FirstOf(ScenarioEligibleDays)
        rest == ScenarioEligibleDays \ {first}
    IN /\ Len(TaskEventSeq) = 2
       /\ unscheduled = <<>>
       /\ \A e \in TaskEventSet : EventMinutes(e) = 60
       /\ TaskEventSeq[1].day = first /\ TaskEventSeq[1].start = 9 * 60
       /\ IF rest = {}
          THEN TaskEventSeq[2].day = first /\ TaskEventSeq[2].start = 10 * 60
          ELSE TaskEventSeq[2].day = FirstOf(rest) /\ TaskEventSeq[2].start = 9 * 60

\* The scenario finished with the start date excluded and the two blocks on
\* two different later days.
C9_Witness ==
  /\ pc = "done" /\ IsScenario
  /\ 0 \notin ScenarioEligibleDays
  /\ Len(TaskEventSeq) = 2
  /\ TaskEventSeq[1].day # TaskEventSeq[2].day

\* C10: two consecutive task blocks of a day go to the same task only when no
\* other task was eligible for the second of them.
C10_NoRepeatWhenAlternative ==
  /\ Len(choiceLog) = Len(TaskEventSeq)
  /\ \A k \in 2..Len(TaskEventSeq) :
       (/\ TaskEventSeq[k].day = TaskEventSeq[k - 1].day
        /\ TaskEventSeq[k].task = TaskEventSeq[k - 1].task)
         => choiceLog[k].eligible = {TaskEventSeq[k].task}

\* A block for which the best score was the previous block's task, another task
\* was eligible, and that other task got the block.
C10_Witness ==
  \E k \in 2..Len(choiceLog) :
    /\ Len(choiceLog) = Len(TaskEventSeq)
    /\ TaskEventSeq[k].day = TaskEventSeq[k - 1].day
    /\ choiceLog[k].previous = TaskEventSeq[k - 1].task
    /\ choiceLog[k].top = choiceLog[k].previous
    /\ TaskEventSeq[k].task # TaskEventSeq[k - 1].task
    /\ Cardinality(choiceLog[k].eligible) = 2

\* The minutes [m, m + 1) an interval covers.
MinutesIn(iv) == {m \in 0..MaxPoint : iv[1] <= m /\ m < iv[2]}

\* C8: after the fold of subtractInterval over the blocked intervals, no minute
\* of a resulting window lies inside a blocked interval.
C8_FoldLeavesNoBlockedMinute ==
  \A k \in 1..ivDone : \A i \in 1..Len(ivWindows) :
    MinutesIn(ivWindows[i]) \cap MinutesIn(ivBlocks[k]) = {}

\* A finished fold of two blocked intervals that cut a window in two and shortened
\* another.
C8_Witness ==
  /\ ivDone = 2 /\ Len(ivBlocks) = 2
  /\ Len(ivStart) = 2 /\ Len(ivWindows) = 3
  /\ \A k \in 1..2 : \E i \in 1..2 : MinutesIn(ivStart[i]) \cap MinutesIn(ivBlocks[k]) # {}

\* The unscheduled entries of the task with the given id.
UnscheduledOf(id) == {k \in 1..Len(unscheduled) : unscheduled[k].id = id}

\* C11: a task whose deadline (23:59 of its date) minus the buffer falls before
\* the start date's midnight gets no task event, and the finished run lists it
\* once as unscheduled with its whole estimate remaining.
C11_PastCutoffIsUnscheduled ==
  pc = "done" =>
    \A i \in 1..Len(tasks) :
      LET id == tasks[i].id
          row == RowOf(id)
      IN (row.deadline[1] * 1440 + 23 * 60 + 59) - Max(0, settings.bufferHours) < 0 =>
           /\ \A e \in TaskEventSet : e.task # id
           /\ Cardinality(UnscheduledOf(id)) = 1
           /\ \A k \in UnscheduledOf(id) :
                unscheduled[k].remainingMinutes = row.estimatedHours

\* A finished run with a buffer of a day: a task due on the start date is left
\* whole and unscheduled while a task due a day later got its block.
C11_Witness ==
  /\ pc = "done"
  /\ settings.bufferHours = 1440
  /\ \E i, j \in 1..Len(tasks) :
       /\ RowOf(tasks[i].id).deadline = <<0>>
       /\ UnscheduledOf(tasks[i].id) # {}
       /\ RowOf(tasks[j].id).deadline = <<1>>
       /\ \E e \in TaskEventSet : e.task = tasks[j].id

\* A well-formed obligation that covers the whole workday window.
CoversWorkday(o) ==
  /\ WellFormed(o)
  /\ o.startTime[1] * 60 + o.startTime[2]
       <= settings.workdayStart[1] * 60 + settings.workdayStart[2]
  /\ settings.workdayEnd[1] * 60 + settings.workdayEnd[2]
       <= o.endTime[1] * 60 + o.endTime[2]

\* The eligible days of the range on which an obligation covers the workday.
CoveredDays ==
  {d \in 0..maxDeadline :
     /\ (settings.startWeekday + d) % 7 \in settings.workingWeekdays
     /\ \E o \in ObligationsOn(d) : CoversWorkday(o)}

\* C12: when the run returns with tasks, an eligible day of the range on which
\* an obligation covers the whole workday window has no task event, and the
\* event of that obligation on that day is in the result.
C12_CoveredDayKeepsObligation ==
  (pc = "done" /\ Len(tasks) > 0) =>
    \A d \in CoveredDays :
      /\ \A e \in TaskEventSet : e.day # d
      /\ \A o \in ObligationsOn(d) :
           CoversWorkday(o) => \E e \in ObligationEventSet : e.day = d /\ e.row = o.id

\* The first half of C12 alone: a covered day has no task event.
CoveredDayHasNoTaskEvent ==
  (pc = "done" /\ Len(tasks) > 0) =>
    \A d \in CoveredDays : \A e \in TaskEventSet : e.day # d

\* C13: the finished run lists exactly one unscheduled entry for each task with
\* remainingMinutes > 0 and none for a task at zero, and an entry's
\* remainingHours is a tenth of an hour nearest to remainingMinutes / 60.
C13_UnscheduledListsRemaining ==
  pc = "done" =>
    /\ \A i \in 1..Len(tasks) :
         Cardinality(UnscheduledOf(tasks[i].id))
           = IF tasks[i].remainingMinutes > 0 THEN 1 ELSE 0
    /\ \A k \in 1..Len(unscheduled) : \E i \in 1..Len(tasks) :
         /\ tasks[i].id = unscheduled[k].id
         /\ unscheduled[k].remainingHours * 6 - tasks[i].remainingMinutes \in -3..3

\* A finished run with a task at zero, which is not listed, and a listed task
\* whose remaining minutes are not a whole number of tenths of an hour.
C13_Witness ==
  /\ pc = "done"
  /\ \E i \in 1..Len(tasks) :
       tasks[i].remainingMinutes = 0 /\ UnscheduledOf(tasks[i].id) = {}
  /\ \E k \in 1..Len(unscheduled) :
       unscheduled[k].remainingHours * 6 # unscheduled[k].remainingMinutes

\* C14: every event of the run, task or obligation, ends strictly later than it
\* starts.
C14_EventsEndAfterStart ==
  \A i \in 1..Len(events) : events[i].end > events[i].start

\* A finished run with a task event, an obligation event, and an obligation row
\* of a processed day whose end is not after its start.
C14_Witness ==
  /\ pc = "done"
  /\ TaskEventSet # {}
  /\ \E e \in ObligationEventSet : \E o \in ObligationsOn(e.day) :
       /\ o.endTime[1] \in 0..23 /\ o.startTime[1] \in 0..23
       /\ o.endTime[1] * 60 + o.endTime[2] <= o.startTime[1] * 60 + o.startTime[2]

\* C15: while handleGenerate computes the new schedule the previous result and
\* calendar document are gone and the schedule is not approved, and right after
\* a generate the schedule is not approved.
C15_GenerateDiscardsAndUnapproves ==
  /\ uiPc = "generating" => result = <<>> /\ icsContent = <<>> /\ ~scheduleApproved
  /\ (lastAction = "generate" /\ uiPc = "idle") => ~scheduleApproved

\* A generate has just ended with a new calendar document, after an earlier
\* schedule was approved and downloaded with another document.
C15_Witness ==
  /\ lastAction = "generate" /\ uiPc = "idle"
  /\ Len(downloads) > 0
  /\ icsContent # <<>>
  /\ WithoutStamp(icsContent[1]) # downloads[1].ics

\* C16: a file is downloaded only in a state with a calendar document in which
\* the user approved the schedule after the most recent generate; the file is
\* that document.
C16_DownloadNeedsDocumentAndApproval ==
  [][Len(downloads') > Len(downloads) =>
       /\ icsContent # <<>>
       /\ scheduleApproved
       /\ approvalsSinceGenerate > 0
       /\ downloads'[Len(downloads')].ics = WithoutStamp(icsContent[1])]_vars

\* Two downloads of different documents: the second after another generate and
\* another approval.
C16_Witness ==
  /\ lastAction = "download"
  /\ Len(downloads) = 2
  /\ downloads[1].ics # downloads[2].ics

\* C17: every downloaded document is the serialization of the schedule of the
\* inputs as they were at the download: when handleGenerate ends on those same
\* inputs, the document it made is the downloaded document.
C17_DownloadsAreCurrent ==
  [][(uiPc = "generating" /\ uiPc' = "idle") =>
       \A k \in 1..Len(downloads) :
         downloads[k].inputs = inputVars =>
           /\ icsContent' # <<>>
           /\ WithoutStamp(icsContent'[1]) = downloads[k].ics]_vars

\* C18: within a task, in chronological order of its blocks, no block is labelled
\* with an earlier sub-phase than a block before it.
C18_PhasesInOrder ==
  \A a, b \in TaskEventSet :
    (a.task = b.task /\ EventBefore(a, b)) => a.sub <= b.sub

\* C19: of two task events of the same day, the later starts at least the break
\* length (breakMinutes clamped to 0..60) after the earlier ends, whether or not
\* they lie in the same free window.
C19_BreakAfterEveryBlock ==
  \A a, b \in TaskEventSet :
    (a.day = b.day /\ a.start < b.start) =>
      b.start >= a.end + Max(0, Min(60, settings.breakMinutes))

\* C19 for two blocks with no obligation between them.
BreakInsideWindow ==
  \A a, b \in TaskEventSet :
    (/\ a.day = b.day /\ a.start < b.start
     /\ \A o \in ObligationsOn(a.day) :
          WellFormed(o) => ~(a.end <= o.startTime[1] * 60 + o.startTime[2]
                             /\ o.endTime[1] * 60 + o.endTime[2] <= b.start))
      => b.start >= a.end + Max(0, Min(60, settings.breakMinutes))

\* The usable lines of a notes field: trimmed, the leading bullet stripped,
\* the empty ones dropped.
UsableLines(notes) ==
  LET Cleaned(i) == trim(stripBullet(trim(notes[i])))
  IN SeqFilter([i \in 1..Len(notes) |-> Cleaned(i)], LAMBDA l : Len(l) > 0)

\* C20: the sub-phase list of a task is the default sequence for its title and
\* estimated hours when its notes yield fewer than two usable lines, and the
\* usable lines in order when they yield two or more.
C20_NotesOrDefaultPhases ==
  \A i \in 1..Len(tasks) :
    LET row == RowOf(tasks[i].id)
        usable == UsableLines(row.notes)
    IN tasks[i].subtasks =
         IF Len(usable) >= 2 THEN usable
         ELSE proposeSubtasks(row.estimatedHours, row.title)

\* C20 on notes with no usable line, or with two or more and no hours hint.
NotesAsClaimedWithoutHints ==
  \A i \in 1..Len(tasks) :
    LET row == RowOf(tasks[i].id)
        usable == UsableLines(row.notes)
    IN (Len(usable) # 1 /\ \A k \in 1..Len(usable) : hintSeparators(usable[k]) = {}) =>
         tasks[i].subtasks =
           IF Len(usable) >= 2 THEN usable
           ELSE proposeSubtasks(row.estimatedHours, row.title)

\* A row with a title, a positive estimate and a deadline that is a date.
RowEligible(a) ==
  /\ \E i \in 1..Len(a.title) : a.title[i] # " "
  /\ a.estimatedHours > 0
  /\ Len(a.deadline) = 1

NoRowEligible == \A i \in 1..Len(assignments) : ~RowEligible(assignments[i])

\* handleGenerate has just ended on the rows as they are.
JustGenerated == lastAction = "generate" /\ uiPc = "idle"

\* C21: after a generate with no eligible row there are no events and no
\* unscheduled entries, there is no calendar document, and the message is the
\* one of "no eligible tasks", not the one of "zero events".
C21_NoEligibleRowMessage ==
  (JustGenerated /\ NoRowEligible) =>
    /\ result = <<>> \/ (result[1].events = <<>> /\ result[1].unscheduled = <<>>)
    /\ icsContent = <<>>
    /\ error = ErrNoValid

\* C21 without the message, and C21 for rows whose deadline text is empty or a date.
NoEligibleRowNoDocument ==
  (JustGenerated /\ NoRowEligible) =>
    /\ result = <<>> \/ (result[1].events = <<>> /\ result[1].unscheduled = <<>>)
    /\ icsContent = <<>>
    /\ (\A i \in 1..Len(assignments) : Len(assignments[i].deadline) <= 1)
          => error = ErrNoValid

\* ------------------------------------------------------------------ C22, C23

\* No two events of the list start at the same instant.
DistinctStarts(evs) ==
  \A i, j \in 1..Len(evs) :
    i # j => <<evs[i].day, evs[i].start>> # <<evs[j].day, evs[j].start>>

\* C22: two documents buildIcs made of the same event list with the same time
\* zone are the same apart from their DTSTAMP lines, and so are two documents it
\* made of the same events in two orders when no two events start at the same
\* instant.
C22_SerializationIsDeterministic ==
  \A j, k \in 1..Len(serialized) :
    LET a == serialized[j]
        b == serialized[k]
    IN (a.events = b.events \/ (DistinctStarts(a.events) /\ b.events \in Reorderings(a.events)))
         => WithoutStamp(a.ics) = WithoutStamp(b.ics)

\* Three events with three starts were serialized in two orders at two moments.
C22_Witness ==
  /\ Len(serialized) = 2
  /\ Len(serialized[1].events) = 3
  /\ DistinctStarts(serialized[1].events)
  /\ serialized[1].events # serialized[2].events
  /\ serialized[1].ics # serialized[2].ics

\* The lines of a document with the given name.
LinesNamed(doc, name) == SeqFilter(doc, LAMBDA line : line[1] = name)

\* The instant of a DTSTART line, in minutes.
InstantOfLine(line) ==
  LET t == line[3]
  IN t[1] * MinutesPerDay + (t[2] * 10 + t[3]) * 60 + t[4] * 10 + t[5]

\* C23: the document has one VEVENT block for each event of the list, the blocks
\* are in non-decreasing order of start instant, no two blocks have the same
\* UID, and the blocks lie between the one calendar header and the one footer.
C23_OneBlockPerEvent ==
  \A k \in 1..Len(serialized) :
    LET evs == serialized[k].events
        doc == serialized[k].ics
        begins == {i \in 1..Len(doc) : doc[i][1] = "BEGIN:VEVENT"}
        starts == LinesNamed(doc, "DTSTART")
        uids == LinesNamed(doc, "UID")
    IN /\ Cardinality(begins) = Len(evs)
       /\ Len(LinesNamed(doc, "END:VEVENT")) = Len(evs)
       /\ Len(starts) = Len(evs)
       /\ Len(uids) = Len(evs)
       /\ \A i \in begins :
            /\ doc[i + 1][1] = "UID"
            /\ doc[i + 3][1] = "DTSTART"
            /\ doc[i + 6][1] = "END:VEVENT"
       /\ \A i \in 1..Len(starts) - 1 :
            InstantOfLine(starts[i]) <= InstantOfLine(starts[i + 1])
       /\ \A e \in IcsEvents :
            Cardinality({i \in 1..Len(evs) : evs[i].day * MinutesPerDay + evs[i].start
                                              = e.day * MinutesPerDay + e.start})
              = Cardinality({i \in 1..Len(starts) : InstantOfLine(starts[i])
                                              = e.day * MinutesPerDay + e.start})
       /\ \A i, j \in 1..Len(uids) : i # j => uids[i] # uids[j]
       /\ doc[1] = <<"BEGIN:VCALENDAR">>
       /\ doc[Len(doc)] = <<"END:VCALENDAR">>
       /\ Len(LinesNamed(doc, "BEGIN:VCALENDAR")) = 1
       /\ Len(LinesNamed(doc, "END:VCALENDAR")) = 1
       /\ \A i \in begins : 5 < i /\ i + 6 < Len(doc)

\* A list of three events, two of them with the same start and given out of
\* order, was serialized.
C23_Witness ==
  /\ Len(serialized) > 0
  /\ Len(serialized[1].events) = 3
  /\ ~DistinctStarts(serialized[1].events)
  /\ serialized[1].events[1].day > serialized[1].events[3].day

\* ------------------------------------------------------------------ C24

\* The claim's numbers, in twentieths: the ratio and the multiplier of the mode.
ClaimedRatio20 ==
  CASE settings.loadMode = "relaxed" -> 12
    [] settings.loadMode = "marathon" -> 20
    [] OTHER -> 16

ClaimedMultiplier20 ==
  CASE settings.loadMode = "relaxed" -> 15
    [] settings.loadMode = "marathon" -> 28
    [] OTHER -> 20

\* max(30, round(dailyMax x ratio)).
ClaimedEffective == Max(30, (dailyMaxMinutes * ClaimedRatio20 + 10) \div 20)

\* The claimed budget of a day with the given minutes left and working days
\* left, times 20 x days.
ClaimedBudgetTimes(minutesLeft, days) ==
  LET full == ClaimedEffective * 20 * days
      B == IF minutesLeft >= days * ClaimedEffective
           THEN full
           ELSE Max(ClaimedEffective * 10 * days,
                    Min(full, minutesLeft * ClaimedMultiplier20))
  IN Max(blockMinutes * 20 * days, B)

\* C24: the budget computed for a day is max(blockLength, B), with B the whole
\* effective capacity when the minutes left reach days left x capacity, and
\* otherwise minutes left / days left x multiplier, kept within half the
\* capacity and the capacity.
C24_DayBudgetFormula ==
  [][\A d \in (DOMAIN budgetLog') \ (DOMAIN budgetLog) :
       budgetLog'[d].num * 20 * remainingWorkingDays
         = ClaimedBudgetTimes(remainingMinutesAll, remainingWorkingDays) * budgetLog'[d].den]_vars

\* A day in marathon mode got a budget strictly between half the capacity and
\* the capacity, above one block.
C24_Witness ==
  /\ settings.loadMode = "marathon"
  /\ \E d \in DOMAIN budgetLog :
       /\ 2 * budgetLog[d].num > effectiveDailyMinutes * budgetLog[d].den
       /\ budgetLog[d].num < effectiveDailyMinutes * budgetLog[d].den
       /\ budgetLog[d].num > blockMinutes * budgetLog[d].den

\* ------------------------------------------------------------------ C25

\* The slot loop stands in a window with at least 10 minutes left, on a day with
\* no task block so far.
AtFirstBlockOfDay ==
  /\ pc = "slot"
  /\ getStudyMinutes(offset) = 0
  /\ winEnd - cursor >= MinSlotMinutes

\* C25: the budget of an eligible day is at least one block, and on a day with
\* no task block so far, in a window with at least 10 minutes left, a task with
\* at least 10 minutes left passes the day-budget test: when it is not a
\* candidate, it fails the per-task cap or the deadline test.
C25_BudgetAdmitsFirstBlock ==
  /\ \A d \in DOMAIN budgetLog : budgetLog[d].num >= blockMinutes * budgetLog[d].den
  /\ AtFirstBlockOfDay =>
       \A i \in 1..Len(tasks) :
         tasks[i].remainingMinutes >= MinSlotMinutes =>
           /\ WithinDayBudget(tasks[i])
           /\ ~IsCandidate(tasks[i]) => (~WithinTaskCap(tasks[i]) \/ ~MeetsDeadline(tasks[i]))

\* The last window of a day with no task block, with 10 minutes in it and a task
\* with 10 minutes left, and no candidate: the day gets no task event.  The
\* budget of the day is what the floor at one block made it.
C25_Witness ==
  /\ AtFirstBlockOfDay
  /\ winIdx = Len(windows)
  /\ \E i \in 1..Len(tasks) : tasks[i].remainingMinutes >= MinSlotMinutes
  /\ Len(candidateIndices) = 0
  /\ dailyBudgetMinutes.num = blockMinutes * dailyBudgetMinutes.den
  /\ blockMinutes > effectiveDailyMinutes

\* ------------------------------------------------------------------ C26

\* The claimed score of task i at a logged choice, as a fraction: urgency x 2
\* + priority + remainingBlocks x 0.1, halved for the previous block's task.
\* Urgency is 10 up to one day before the deadline and 10 / days after that.
ClaimedScore(c, i) ==
  LET t == tasks[i]
      left == DeadlineInstant(t) - c.day * MinutesPerDay
      half == IF c.previous # Null /\ t.id = c.previous THEN 2 ELSE 1
      tenBlocks == 10 * blockMinutes
  IN IF left <= MinutesPerDay
     THEN [num |-> 20 * tenBlocks + t.priority * tenBlocks + c.remaining[i],
           den |-> half * tenBlocks]
     ELSE [num |-> 20 * MinutesPerDay * tenBlocks + t.priority * tenBlocks * left
                     + c.remaining[i] * left,
           den |-> half * tenBlocks * left]

ClaimedLower(c, i, j) ==
  RatLess(ClaimedScore(c, i).num, ClaimedScore(c, i).den,
          ClaimedScore(c, j).num, ClaimedScore(c, j).den)

\* The order of the tasks: deadline ascending, priority descending, minutes (as
\* they were when the tasks were sorted) descending.
EarlierInOrder(a, b) ==
  \/ a.deadlineDay < b.deadlineDay
  \/ a.deadlineDay = b.deadlineDay /\ a.priority > b.priority
  \/ a.deadlineDay = b.deadlineDay /\ a.priority = b.priority
       /\ a.estimatedMinutes > b.estimatedMinutes

\* i has the highest score among the tasks X, and no task of X with the same
\* score is earlier in the order.
IsBestOf(c, i, X) ==
  /\ i \in X
  /\ \A j \in X :
       /\ ~ClaimedLower(c, i, j)
       /\ ~ClaimedLower(c, j, i) => ~EarlierInOrder(tasks[j], tasks[i])

\* C26: the chosen task has the highest score among the eligible tasks, or, when
\* the task with the highest score is the previous block's task and another
\* task is eligible, the highest score among the other eligible tasks; among
\* equal scores the chosen task is the earliest in the order.
C26_HighestScoreChosen ==
  \A k \in 1..Len(choiceLog) :
    LET c == choiceLog[k]
        eligible == {c.candidateIndices[n] : n \in 1..Len(c.candidateIndices)}
        others == {i \in eligible : tasks[i].id # c.previous}
        topIsPrevious == \E i \in eligible : IsBestOf(c, i, eligible) /\ tasks[i].id = c.previous
    IN IF topIsPrevious /\ others # {}
       THEN IsBestOf(c, c.chosenIndex, others)
       ELSE IsBestOf(c, c.chosenIndex, eligible)

\* A choice between two eligible tasks with equal scores, of which the chosen
\* one is earlier in the order though it came later in the rows.
C26_Witness ==
  \E k \in 1..Len(choiceLog) :
    LET c == choiceLog[k]
    IN \E j \in 1..Len(c.candidateIndices) :
         LET i == c.candidateIndices[j]
         IN /\ i # c.chosenIndex
            /\ ~ClaimedLower(c, i, c.chosenIndex)
            /\ ~ClaimedLower(c, c.chosenIndex, i)
            /\ EarlierInOrder(tasks[c.chosenIndex], tasks[i])
            /\ tasks[c.chosenIndex].id = "t2"

\* ------------------------------------------------------------------ C27

\* The task events of a task, in the order of the result.
TaskEventsOf(id) ==
  SeqFilter(events, LAMBDA ev : ev.kind = "task" /\ ev.task = id)

MinutesOf(ws) == UNION {MinutesIn(ws[i]) : i \in 1..Len(ws)}

\* The pieces the windows of a list leave one by one, in order.
PiecesOf(ws, block) ==
  LET F[i \in 0..Len(ws)] ==
        IF i = 0 THEN <<>> ELSE F[i - 1] \o subtractInterval(<<ws[i]>>, block)
  IN F[Len(ws)]

\* C28: one call of subtractInterval on windows with end > start returns windows
\* that cover the minutes of the input outside the blocked interval and no
\* other, none of them empty, at most two for each input window; a blocked
\* interval with end <= start returns the input as it is.
C28_ExactDifference ==
  [][(ivDone' = ivDone + 1 /\ \A i \in 1..Len(ivWindows) : NonEmptyWindow(ivWindows[i])) =>
       LET block == ivBlocks[ivDone + 1]
       IN /\ MinutesOf(ivWindows') = MinutesOf(ivWindows) \ MinutesIn(block)
          /\ \A i \in 1..Len(ivWindows') : ivWindows'[i][2] > ivWindows'[i][1]
          /\ ivWindows' = PiecesOf(ivWindows, block)
          /\ \A i \in 1..Len(ivWindows) :
               Len(subtractInterval(<<ivWindows[i]>>, block)) <= 2
          /\ block[2] <= block[1] => ivWindows' = ivWindows]_vars

\* One window was cut in two by the first blocked interval, and the second
\* blocked interval, with end <= start, left the two pieces as they were.
C28_Witness ==
  /\ ivDone = 2
  /\ Len(ivStart) = 1 /\ NonEmptyWindow(ivStart[1])
  /\ Len(ivWindows) = 2
  /\ ivBlocks[2][2] <= ivBlocks[2][1]
  /\ ivBlocks[2][1] > 0

\* ------------------------------------------------------------------ C29

\* One step of the loops: an iteration of the slot loop leaves the loop of its
\* window or moves the cursor on by 10 minutes or more, and the day loop goes
\* from a day to the next one only, and is not entered again once it is left.
LoopsAdvance ==
  /\ pc = "slot" /\ pc' = "slot" =>
       /\ offset' = offset
       /\ \/ winIdx' = winIdx + 1
          \/ winIdx' = winIdx /\ cursor' >= cursor + MinSlotMinutes
  /\ pc = "slot" /\ pc' # "slot" => pc' = "day" /\ offset' = offset + 1
  /\ pc = "day" /\ pc' = "day" => offset' = offset + 1
  /\ pc = "day" /\ pc' # "day" => offset' = offset
  /\ pc \in {"finish", "done"} => pc' \in {"finish", "done"} /\ offset' = offset

\* C29: every run ends, each iteration of the slot loop leaves the loop or moves
\* the cursor on by at least 10 minutes, and the day loop visits no day twice.
C29_RunTerminates ==
  /\ <>(pc = "done")
  /\ [][LoopsAdvance]_vars

\* A finished run that went through three days and placed blocks on two of them.
C29_Witness ==
  /\ pc = "done"
  /\ offset >= 3
  /\ \E a, b \in TaskEventSet : a.day # b.day
  /\ \E a, b \in TaskEventSet : a.day = b.day /\ a.start < b.start

\* ------------------------------------------------------------------ C30

\* A task without the two fields the allocator writes.
FixedPart(t) == [t EXCEPT !.remainingMinutes = 0, !.nextSubIndex = 0]

\* C30: no step of a run changes the assignment rows, the weekly, specific and
\* daily obligation rows or the settings, and in the tasks made by the
\* normalizer only remainingMinutes and nextSubIndex change.
C30_InputsReadOnly ==
  [][/\ inputVars' = inputVars
     /\ pc # "start" =>
          /\ Len(tasks') = Len(tasks)
          /\ \A i \in 1..Len(tasks) : FixedPart(tasks'[i]) = FixedPart(tasks[i])]_vars

\* A finished run in which a task's minutes went down and its cursor moved, two
\* rows were sorted into another order, and an obligation was rendered.
C30_Witness ==
  /\ pc = "done"
  /\ \E i \in 1..Len(tasks) :
       /\ tasks[i].remainingMinutes < RowOf(tasks[i].id).estimatedHours
       /\ tasks[i].nextSubIndex # 0
  /\ \/ Len(tasks) = 2 /\ tasks[1].id = "t2"
     \/ ObligationEventSet # {}

\* ------------------------------------------------------------------ C31

\* The days that have a counter or a task event.
CountedDays == DOMAIN perDayStudyMinutes \cup {e.day : e \in TaskEventSet}

\* C31: at every point of a run, for every task the estimate of its row equals
\* its remainingMinutes plus the minutes of its task events so far, and the
\* counter of a day equals the minutes of the task events of that day.
C31_WorkIsConserved ==
  /\ \A i \in 1..Len(tasks) :
       RowOf(tasks[i].id).estimatedHours
         = tasks[i].remainingMinutes + MinutesOfTask(tasks[i].id)
  /\ \A d \in CountedDays : getStudyMinutes(d) = MinutesOfDay(d)

\* In the middle of a run: a day with two blocks so far, blocks on two days, and
\* a task placed in part.
C31_Witness ==
  /\ pc = "slot"
  /\ \E d \in CountedDays : Cardinality({e \in TaskEventSet : e.day = d}) >= 2
  /\ Cardinality(CountedDays) >= 2
  /\ \E i \in 1..Len(tasks) :
       /\ tasks[i].remainingMinutes > 0
       /\ MinutesOfTask(tasks[i].id) > 0

\* ------------------------------------------------------------------ C32

\* The block length in force: the configured value clamped to 15..240.
ClaimedBlockLength ==
  IF settings.blockMinutes < 15 THEN 15
  ELSE IF settings.blockMinutes > 240 THEN 240 ELSE settings.blockMinutes

\* C32: every task event lasts at least 10 minutes and at most one block
\* length, the configured block length clamped to 15..240 minutes.
C32_EventLengthBounds ==
  \A e \in TaskEventSet :
    /\ EventMinutes(e) >= 10
    /\ EventMinutes(e) <= ClaimedBlockLength

\* A finished run with a configured block length over 240: a block of 240
\* minutes and then one of 10 minutes.
C32_Witness ==
  /\ pc = "done"
  /\ settings.blockMinutes > 240
  /\ \E e \in TaskEventSet : EventMinutes(e) = 240
  /\ \E e \in TaskEventSet : EventMinutes(e) = 10

\* ------------------------------------------------------------------ C33

\* The tasks with 1 to 9 minutes left.
ShortOfASlot == {i \in 1..Len(tasks) : tasks[i].remainingMinutes \in 1..9}

\* C33: a task with 1 to 9 minutes left is no candidate of any slot, gets no
\* further task event, keeps its minutes, and is in the unscheduled list when
\* the run returns.
C33_ShortRemainderIsStuck ==
  /\ [](/\ pc = "slot" =>
            \A k \in 1..Len(candidateIndices) : candidateIndices[k] \notin ShortOfASlot
         /\ pc = "done" =>
            \A i \in ShortOfASlot : UnscheduledOf(tasks[i].id) # {})
  /\ [][\A i \in ShortOfASlot :
          /\ Len(tasks') = Len(tasks)
          /\ tasks'[i].remainingMinutes = tasks[i].remainingMinutes
          /\ MinutesOfTask(tasks[i].id)' = MinutesOfTask(tasks[i].id)]_vars

\* A finished run that left a task with 1 to 9 minutes after placing blocks of
\* it, and went through a later day, on or before the deadline and inside its
\* budget, on which it placed nothing although a free window was there.
C33_Witness ==
  /\ pc = "done"
  /\ \E i \in ShortOfASlot :
       /\ MinutesOfTask(tasks[i].id) > 0
       /\ UnscheduledOf(tasks[i].id) # {}
       /\ \E d \in DOMAIN budgetLog :
            /\ d <= tasks[i].deadlineDay
            /\ MinutesOfDay(d) = 0
            /\ Len(FreeWindows(d)) > 0
            /\ \E e \in TaskEventSet : e.day < d

\* ------------------------------------------------------------------ C34

\* C34: in every state of the application, an approved schedule has a calendar
\* document, and a calendar document has a result with at least one event.
C34_ApprovedHasDocumentHasResult ==
  /\ scheduleApproved => icsContent # <<>>
  /\ icsContent # <<>> => (result # <<>> /\ Len(result[1].events) > 0)

\* An approved schedule whose document was downloaded and whose rows were
\* edited afterwards.
C34_Witness ==
  /\ scheduleApproved
  /\ icsContent # <<>>
  /\ Len(downloads) >= 1
  /\ lastAction = "edit"
  /\ ~hasValid

\* ------------------------------------------------------------------ C35

\* The eligible working days from day d to the latest deadline, inclusive.
EligibleDaysFrom(d) ==
  {x \in d..maxDeadline : (settings.startWeekday + x) % 7 \in settings.workingWeekdays}

\* C35: when the planner computes the budget of a day, remainingWorkingDays is
\* at least 1 and is the number of eligible working days from that day to the
\* end of the range, so the division by it is by no zero.
C35_RemainingWorkingDays ==
  [][(pc = "day" /\ budgetLog' # budgetLog) =>
       /\ remainingWorkingDays >= 1
       /\ remainingWorkingDays = Cardinality(EligibleDaysFrom(offset))
       /\ budgetLog'[offset].den % remainingWorkingDays = 0]_vars

\* The budget of the day was just computed after an earlier eligible day and an
\* excluded day, with more eligible days to come.
C35_Witness ==
  /\ pc = "slot"
  /\ offset \in DOMAIN budgetLog
  /\ \E d \in 0..(offset - 1) : d \in DOMAIN budgetLog
  /\ \E d \in 0..(offset - 1) :
       (settings.startWeekday + d) % 7 \notin settings.workingWeekdays
  /\ Cardinality(EligibleDaysFrom(offset)) >= 2

\* ------------------------------------------------------------------ C36

\* The minutes of a list of windows, and of the workday.
WindowMinutes(ws) == UNION {ws[i][1]..(ws[i][2] - 1) : i \in 1..Len(ws)}

WorkdayMinutes == workStartMinutes..(workEndMinutes - 1)

\* C36: on a day whose budget and free windows are computed, an applicable
\* obligation gets an event exactly when it is well formed, and the free windows
\* are the workday without the minutes of the obligation events of the day: an
\* obligation is rendered if and only if it is subtracted, and one with an
\* unparsable time or end <= start is neither.
C36_RenderedIffBlocked ==
  [][(pc = "day" /\ budgetLog' # budgetLog) =>
       LET shown == {events'[k] : k \in (Len(events) + 1)..Len(events')}
       IN /\ \A o \in ObligationsOn(offset) :
               WellFormed(o) <=>
                 \E e \in shown : e.kind = "obligation" /\ e.day = offset /\ e.row = o.id
          /\ WindowMinutes(windows')
               = WorkdayMinutes \ UNION {e.start..(e.end - 1) : e \in shown}]_vars

\* The slot loop of a day on which an obligation inside the workday was rendered
\* and split the workday, and another, ill formed, was not rendered.
C36_Witness ==
  /\ pc = "slot"
  /\ offset \in DOMAIN budgetLog
  /\ Len(windows) >= 2
  /\ \E o1, o2 \in ObligationsOn(offset) :
       /\ WellFormed(o1)
       /\ \E e \in ObligationEventSet :
            e.day = offset /\ e.row = o1.id /\ windows[1][2] = e.start
       /\ ~WellFormed(o2)
       /\ \A e \in ObligationEventSet : e.row # o2.id

====
